---------------------------- MODULE Spec2Model ----------------------------
(***************************************************************************)
(* A model of the guided triage interview of RAG-Triage: the dialogue      *)
(* state machine (chatStateMachine.ts), the rules engine (rules.ts), the   *)
(* fact extraction, red-flag evaluation and handoff assembly (handoff.ts)  *)
(* and the chat endpoint that ties them together (routes.ts).              *)
(*                                                                         *)
(* Strings are TLA+ strings; the program's string functions (toLowerCase,  *)
(* trim, includes, startsWith, the \d+ match) are computed character by    *)
(* character.  JavaScript values are tagged tuples, so that a value of any *)
(* type can be stored in a record and compared with any other.             *)
(***************************************************************************)
EXTENDS Integers, Sequences, FiniteSets, TLC

VARIABLES
    session,      \* the stored chat session row (stage, state, retryCount, status, ...)
    submissions,  \* the submissions table, in order of creation
    last,         \* the last processed turn: its input and what processUserMessage returned
    turns,        \* number of turns processed on the session
    failures,     \* number of those turns that ended with a retry count above zero
    call,         \* pure-function harness: the function called and its arguments
    ret           \* pure-function harness: the value returned

vars == <<session, submissions, last, turns, failures, call, ret>>

-----------------------------------------------------------------------------
(* JavaScript values *)

Undefined == <<"undefined">>
Null == <<"null">>
Bool(b) == <<"boolean", b>>
Num(n) == <<"number", n>>
Str(s) == <<"string", s>>

TypeOf(v) == v[1]
IsBool(v) == v[1] = "boolean"
IsNum(v) == v[1] = "number"
IsStr(v) == v[1] = "string"
Val(v) == v[2]

\* JavaScript truthiness: false, 0, "", null and undefined are falsy.
Truthy(v) ==
    CASE IsBool(v) -> v[2]
      [] IsNum(v) -> v[2] # 0
      [] IsStr(v) -> v[2] # ""
      [] OTHER -> FALSE

\* a || b
Or(a, b) == IF Truthy(a) THEN a ELSE b

\* a ?? b and the test a != null
Nullish(v) == v = Undefined \/ v = Null
Coalesce(a, b) == IF Nullish(a) THEN b ELSE a

-----------------------------------------------------------------------------
(* String functions *)

Range(f) == {f[x] : x \in DOMAIN f}

Includes(s, w) ==
    \E i \in 1..(Len(s) - Len(w) + 1) : SubSeq(s, i, i + Len(w) - 1) = w

StartsWith(s, w) == Len(s) >= Len(w) /\ SubSeq(s, 1, Len(w)) = w

UpperChars == <<"A","B","C","D","E","F","G","H","I","J","K","L","M",
                "N","O","P","Q","R","S","T","U","V","W","X","Y","Z">>
LowerChars == <<"a","b","c","d","e","f","g","h","i","j","k","l","m",
                "n","o","p","q","r","s","t","u","v","w","x","y","z">>

LowerChar(c) ==
    IF \E i \in 1..26 : UpperChars[i] = c
    THEN LowerChars[CHOOSE i \in 1..26 : UpperChars[i] = c]
    ELSE c

UpperChar(c) ==
    IF \E i \in 1..26 : LowerChars[i] = c
    THEN UpperChars[CHOOSE i \in 1..26 : LowerChars[i] = c]
    ELSE c

RECURSIVE ToLowerCase(_)
ToLowerCase(s) ==
    IF s = "" THEN "" ELSE LowerChar(SubSeq(s, 1, 1)) \o ToLowerCase(Tail(s))

RECURSIVE ToUpperCase(_)
ToUpperCase(s) ==
    IF s = "" THEN "" ELSE UpperChar(SubSeq(s, 1, 1)) \o ToUpperCase(Tail(s))

IsSpace(c) == c \in {" ", "\t", "\n"}

RECURSIVE TrimStart(_)
TrimStart(s) ==
    IF s # "" /\ IsSpace(SubSeq(s, 1, 1)) THEN TrimStart(Tail(s)) ELSE s

RECURSIVE TrimEnd(_)
TrimEnd(s) ==
    IF s # "" /\ IsSpace(SubSeq(s, Len(s), Len(s)))
    THEN TrimEnd(SubSeq(s, 1, Len(s) - 1))
    ELSE s

Trim(s) == TrimEnd(TrimStart(s))

Digits == <<"0","1","2","3","4","5","6","7","8","9">>
IsDigit(c) == \E i \in 1..10 : Digits[i] = c
DigitValue(c) == (CHOOSE i \in 1..10 : Digits[i] = c) - 1

\* parseInt of a run of digits
RECURSIVE ParseInt(_)
ParseInt(ds) ==
    IF ds = "" THEN 0
    ELSE 10 * ParseInt(SubSeq(ds, 1, Len(ds) - 1)) + DigitValue(SubSeq(ds, Len(ds), Len(ds)))

\* the match of /\d+/: the first maximal run of digits, "" when there is none
FirstDigitRun(s) ==
    IF \E i \in 1..Len(s) : IsDigit(SubSeq(s, i, i))
    THEN LET b == CHOOSE i \in 1..Len(s) :
                      /\ IsDigit(SubSeq(s, i, i))
                      /\ \A j \in 1..(i - 1) : ~IsDigit(SubSeq(s, j, j))
             e == CHOOSE k \in b..Len(s) :
                      /\ \A j \in b..k : IsDigit(SubSeq(s, j, j))
                      /\ (k = Len(s) \/ ~IsDigit(SubSeq(s, k + 1, k + 1)))
         IN SubSeq(s, b, e)
    ELSE ""

-----------------------------------------------------------------------------
(* chatStateMachine.ts: tables *)

Stages ==
    {"opening", "localisation", "time_start", "time_trend", "severity",
     "danger_breathing", "danger_collapse", "danger_severe_pain",
     "danger_bleeding", "danger_confusion", "red_flags", "rag_followup",
     "context_conditions", "context_medications", "context_surgery",
     "functional_eat", "functional_move", "functional_activities",
     "collect_name", "summary", "complete", "escalated"}

COMPLAINTS ==
    <<"chest pain", "shortness of breath", "abdominal pain", "headache", "fever">>

Q(question, field) == [question |-> question, field |-> field]

RED_FLAG_QUESTIONS(complaint) ==
    CASE complaint = "chest pain" ->
           <<Q("Is the pain spreading to your arm, jaw, neck, or back?", "radiatingPain"),
             Q("Are you sweating or feeling clammy?", "sweating"),
             Q("Do you have any nausea or vomiting?", "nausea")>>
      [] complaint = "shortness of breath" ->
           <<Q("Are you wheezing or making unusual sounds when breathing?", "wheezing"),
             Q("Have you coughed up any blood?", "coughingBlood"),
             Q("Do you have any chest pain or tightness?", "chestPain")>>
      [] complaint = "abdominal pain" ->
           <<Q("Are you vomiting blood or something that looks like coffee grounds?", "vomitingBlood"),
             Q("Have you noticed any blood in your stool or urine?", "bloodyStools"),
             Q("Is the pain worse when you move or press on the area?", "worseWithMovement"),
             Q("Do you have a fever or feel shivery?", "feverWithPain"),
             Q("Are you pregnant or could you be pregnant?", "pregnancy")>>
      [] complaint = "headache" ->
           <<Q("Did this headache come on suddenly like a thunderclap?", "thunderclap"),
             Q("Do you have a stiff neck or does it hurt to bend your head forward?", "neckStiffness"),
             Q("Are you experiencing any vision problems or seeing double?", "visualDisturbance"),
             Q("Do you have any weakness, numbness, or difficulty speaking?", "neurologicalSymptoms"),
             Q("Are you sensitive to light?", "photophobia")>>
      [] complaint = "fever" ->
           <<Q("Do you have a rash that doesn't fade when you press a glass against it?", "nonBlanchingRash"),
             Q("Do you have a stiff neck?", "neckStiffness"),
             Q("Are you able to keep fluids down?", "canKeepFluids")>>
      [] OTHER -> << >>

\* Every key a ChatState can hold: the fields the state machine sets and the
\* fields the rules engine and the fact projection read.
TextFields ==
    {"complaint", "openingDescription", "location", "onset", "timeTrend",
     "ragAnswer0", "ragAnswer1", "ragAnswer2", "medicalHistory", "medications",
     "previousSurgery", "patientName", "sex", "duration"}

NumberFields == {"severity", "age", "ragQuestionsAsked"}

BooleanFields ==
    {"gettingWorse", "troubleBreathing", "collapse", "severePain",
     "severeBleeding", "confusion", "radiatingPain", "sweating", "nausea",
     "wheezing", "coughingBlood", "chestPain", "vomitingBlood", "bloodyStools",
     "worseWithMovement", "feverWithPain", "pregnancy", "thunderclap",
     "neckStiffness", "visualDisturbance", "neurologicalSymptoms",
     "photophobia", "nonBlanchingRash", "canKeepFluids", "canEatDrink",
     "canMove", "stoppingActivities", "shortnessOfBreath", "cardiacHistory",
     "cyanosis", "speakingDifficulty", "rigidAbdomen", "bleeding", "fever"}

Fields == TextFields \cup NumberFields \cup BooleanFields

\* {} : no key is present
EmptyState == [f \in Fields |-> Undefined]

\* Object.keys(state)
Keys(state) == {f \in DOMAIN state : state[f] # Undefined}

Set(state, f, v) == [state EXCEPT ![f] = v]

FALLBACK_PROMPTS(category) ==
    CASE category = "opening" ->
           [first |-> "I understand. Could you describe your main symptom in a bit more detail?",
            second |-> "What is the single thing that's bothering you most right now?",
            final |-> "Please tell me: are you experiencing chest pain, breathing problems, stomach pain, headache, or fever?"]
      [] category = "localisation" ->
           [first |-> "Which part of your body is bothering you the most right now?",
            second |-> "Can you point to where the problem is? Upper body, lower body, head, chest, or stomach?",
            final |-> "Please tell me the area: head, chest, stomach, back, arms, or legs?"]
      [] category = "time_start" ->
           [first |-> "Can you estimate: was it today, yesterday, or longer ago?",
            second |-> "Did this start hours ago, days ago, or weeks ago?",
            final |-> "Roughly how long have you had this problem?"]
      [] category = "time_trend" ->
           [first |-> "Would you say it's better, worse, or about the same as when it started?",
            second |-> "Is the problem getting worse, getting better, or staying the same?",
            final |-> "Please tell me: worse, better, or the same?"]
      [] category = "severity" ->
           [first |-> "If 0 is no problem and 10 is the worst possible, what number would you give it?",
            second |-> "Is it mild (1-3), moderate (4-6), or severe (7-10)?",
            final |-> "Just give me a number from 0 to 10 for how bad it is."]
      [] category = "danger" ->
           [first |-> "Just to confirm, is that a yes or a no?",
            second |-> "I need a clear answer for safety. Yes or no?",
            final |-> "Please answer yes or no."]
      [] category = "red_flags" ->
           [first |-> "Is that a yes or no?",
            second |-> "I need to know for safety. Yes or no?",
            final |-> "Please answer with yes or no."]
      [] category = "context" ->
           [first |-> "Could you tell me a bit more about that?",
            second |-> "Any details you can share would help.",
            final |-> "You can say 'none' if nothing applies."]
      [] category = "functional" ->
           [first |-> "Are you able to do that? Yes or no.",
            second |-> "Can you manage that normally? Yes or no.",
            final |-> "Please answer yes or no."]
      [] OTHER -> [first |-> "", second |-> "", final |-> ""]

FallbackCategories ==
    {"opening", "localisation", "time_start", "time_trend", "severity",
     "danger", "red_flags", "context", "functional"}

EMERGENCY_RESPONSE ==
    "Based on what you've told me, this could be urgent. You need emergency medical help now. Please call 999 or go to A&E immediately."

SAFETY_NET ==
    "\n\nIf your symptoms suddenly get worse, or you develop new symptoms like severe pain, breathlessness, collapse, or bleeding, seek urgent medical help immediately."

-----------------------------------------------------------------------------
(* chatStateMachine.ts: parsers *)

yesWords ==
    <<"yes", "y", "yeah", "yep", "true", "correct", "yea", "sure", "ok", "okay",
      "definitely", "absolutely", "i can", "i am", "i do">>

noWords ==
    <<"no", "n", "nope", "nah", "false", "negative", "none", "not", "can't",
      "cannot", "don't", "i can't", "i cannot", "i don't">>

WordMatches(lower, w) ==
    lower = w \/ StartsWith(lower, w \o " ") \/ Includes(lower, " " \o w)

parseYesNo(input) ==
    LET lower == Trim(ToLowerCase(input))
    IN IF \E i \in DOMAIN yesWords : WordMatches(lower, yesWords[i]) THEN Bool(TRUE)
       ELSE IF \E i \in DOMAIN noWords : WordMatches(lower, noWords[i]) THEN Bool(FALSE)
       ELSE Null

parseNumber(input) ==
    LET match == FirstDigitRun(input)
    IN IF match # "" THEN Num(ParseInt(match)) ELSE Null

parseComplaint(input) ==
    LET lower == ToLowerCase(input)
        has(w) == Includes(lower, w)
    IN IF \E i \in DOMAIN COMPLAINTS : has(COMPLAINTS[i])
       THEN Str(COMPLAINTS[CHOOSE i \in DOMAIN COMPLAINTS :
                               /\ has(COMPLAINTS[i])
                               /\ \A j \in 1..(i - 1) : ~has(COMPLAINTS[j])])
       ELSE IF has("chest") \/ has("heart") THEN Str("chest pain")
       ELSE IF has("breath") \/ has("breathing") \/ has("breathless") \/ has("can't breathe")
            THEN Str("shortness of breath")
       ELSE IF has("stomach") \/ has("abdomen") \/ has("belly") \/ has("tummy") \/ has("gut")
            THEN Str("abdominal pain")
       ELSE IF has("head") \/ has("migraine") THEN Str("headache")
       ELSE IF has("fever") \/ has("temperature") \/ has("hot") \/ has("chills") \/ has("shiver")
            THEN Str("fever")
       ELSE Null

getFallbackPrompt(stage, retryCount) ==
    LET category == IF StartsWith(stage, "functional_") THEN "functional"
                    ELSE IF StartsWith(stage, "context_") THEN "context"
                    ELSE IF StartsWith(stage, "danger_") THEN "danger"
                    ELSE stage
        prompts == FALLBACK_PROMPTS(category)
    IN IF category \notin FallbackCategories
       THEN "I didn't quite catch that. Could you try again?"
       ELSE IF retryCount = 0 THEN prompts.first
       ELSE IF retryCount = 1 THEN prompts.second
       ELSE prompts.final

emergencyKeywords ==
    <<"severe chest pain", "severe breathing", "can't breathe", "blue lips",
      "collapsed", "fainted", "fainting", "confusion", "confused", "seizure",
      "worst headache", "stiff neck", "fever", "purple rash", "heavy bleeding",
      "bleeding heavily", "unconscious", "not responding">>

checkEmergencySigns(input) ==
    LET lower == ToLowerCase(input)
    IN \E i \in DOMAIN emergencyKeywords : Includes(lower, emergencyKeywords[i])

-----------------------------------------------------------------------------
(* chatStateMachine.ts: questions *)

\* String(value) inside a template literal
Text(v) ==
    CASE IsStr(v) -> v[2]
      [] IsNum(v) -> ToString(v[2])
      [] IsBool(v) -> IF v[2] THEN "true" ELSE "false"
      [] OTHER -> v[1]

generateSummaryConfirmation(state) ==
    "Thank you " \o Text(Or(state["patientName"], Str("for that information")))
      \o ". Let me confirm what you've told me:\n\n"
      \o "- Name: " \o Text(Or(state["patientName"], Str("Not provided"))) \o "\n"
      \o "- Main concern: " \o Text(Or(state["complaint"], Str("Not specified"))) \o "\n"
      \o "- Location: " \o Text(Or(state["location"], Str("Not specified"))) \o "\n"
      \o "- Started: " \o Text(Or(state["onset"], Str("Not specified"))) \o "\n"
      \o "- Trend: " \o Text(Or(state["timeTrend"], Str("Not specified"))) \o "\n"
      \o "- Severity: "
      \o (IF state["severity"] # Undefined
          THEN Text(state["severity"]) \o "/10" ELSE "Not rated") \o "\n"
      \o (IF Truthy(state["medicalHistory"]) /\ state["medicalHistory"] # Str("None reported")
          THEN "- Medical conditions: " \o Text(state["medicalHistory"]) \o "\n" ELSE "")
      \o (IF Truthy(state["medications"]) /\ state["medications"] # Str("None")
          THEN "- Medications: " \o Text(state["medications"]) \o "\n" ELSE "")
      \o "\nIs this correct? (Yes/No)"

NQ(question, nextStage) == [question |-> question, nextStage |-> nextStage]

\* questions.find(q => !answeredFields.includes(q.field)): its index, 0 when none
FirstUnanswered(state) ==
    LET complaint == IF Truthy(state["complaint"])
                     THEN ToLowerCase(Val(state["complaint"])) ELSE ""
        questions == RED_FLAG_QUESTIONS(complaint)
        open(i) == questions[i].field \notin Keys(state)
    IN IF \E i \in DOMAIN questions : open(i)
       THEN questions[CHOOSE i \in DOMAIN questions :
                          open(i) /\ \A j \in 1..(i - 1) : ~open(j)]
       ELSE Q("", "")

getNextQuestion(state, stage) ==
    CASE stage = "opening" ->
           NQ("Can you tell me what's happening right now and what made you seek help today?", "localisation")
      [] stage = "localisation" -> NQ("Where in your body is the main problem?", "time_start")
      [] stage = "time_start" -> NQ("When did this start?", "time_trend")
      [] stage = "time_trend" -> NQ("Is it getting better, worse, or staying the same?", "severity")
      [] stage = "severity" ->
           NQ("On a scale from 0 to 10, how severe is it right now?", "danger_breathing")
      [] stage = "danger_breathing" ->
           NQ("Are you having trouble breathing right now?", "danger_collapse")
      [] stage = "danger_collapse" ->
           NQ("Have you collapsed, fainted, or felt close to passing out?", "danger_severe_pain")
      [] stage = "danger_severe_pain" -> NQ("Is the pain severe or unbearable?", "danger_bleeding")
      [] stage = "danger_bleeding" -> NQ("Are you bleeding heavily right now?", "danger_confusion")
      [] stage = "danger_confusion" -> NQ("Are you confused, drowsy, or hard to wake?", "red_flags")
      [] stage = "red_flags" ->
           IF FirstUnanswered(state).field # ""
           THEN NQ(FirstUnanswered(state).question, "red_flags")
           ELSE NQ("", "rag_followup")
      [] stage = "rag_followup" -> NQ("", "context_conditions")
      [] stage = "context_conditions" ->
           NQ("Do you have any long-term medical conditions?", "context_medications")
      [] stage = "context_medications" ->
           NQ("Are you taking any regular medications?", "context_surgery")
      [] stage = "context_surgery" ->
           NQ("Have you had any surgery in this area before?", "functional_eat")
      [] stage = "functional_eat" -> NQ("Are you able to eat or drink?", "functional_move")
      [] stage = "functional_move" -> NQ("Can you move around normally?", "functional_activities")
      [] stage = "functional_activities" ->
           NQ("Is this stopping you from doing normal daily activities?", "collect_name")
      [] stage = "collect_name" ->
           NQ("Thank you for that information. Before I complete your assessment, can I take your full name please?", "summary")
      [] stage = "summary" -> NQ(generateSummaryConfirmation(state), "complete")
      [] OTHER -> NQ("Thank you for completing the assessment.", "complete")

\* The outcome of a chat completion: the content returned (a string, possibly
\* empty, or undefined when the response carries none), or the call throws.
Throw == <<"throw">>

\* the catch of generatePatientResponse answering with the generic sentence in
\* place of the stage's fixed question
generatePatientResponseGeneric(currentState, currentStage, gen) ==
    IF gen = Throw
    THEN "I understand. Could you tell me more about that?"
    ELSE Text(Or(gen, Str("I understand. Could you tell me more about that?")))
generatePatientResponse(currentState, currentStage, gen) ==
    IF gen = Throw
    THEN getNextQuestion(currentState, currentStage).question
    ELSE Text(Or(gen, Str("I understand. Could you tell me more about that?")))

\* generatePatientResponse(...) || getNextQuestion(newState, newStage).question
Reply(newState, newStage, gen) ==
    LET r == generatePatientResponse(newState, newStage, gen)
    IN IF r # "" THEN r ELSE getNextQuestion(newState, newStage).question

-----------------------------------------------------------------------------
(* chatStateMachine.ts: processUserMessage *)

Result(newState, newStage, response, isEscalation, isComplete, newRetryCount) ==
    [newState |-> newState, newStage |-> newStage, response |-> response,
     isEscalation |-> isEscalation, isComplete |-> isComplete,
     newRetryCount |-> newRetryCount]

\* the object returned on every escalation
Escalated(newState) ==
    Result(newState, "escalated", EMERGENCY_RESPONSE, TRUE, TRUE, 0)

maxRetries == 3

\* the stage list of the retry ceiling
stages ==
    <<"opening", "localisation", "time_start", "time_trend", "severity",
      "danger_breathing", "danger_collapse", "danger_severe_pain",
      "danger_bleeding", "danger_confusion", "red_flags", "context_conditions",
      "context_medications", "context_surgery", "functional_eat",
      "functional_move", "functional_activities", "summary">>

\* Array.prototype.indexOf, 0-based, -1 when absent
indexOf(array, x) ==
    IF \E i \in DOMAIN array : array[i] = x
    THEN (CHOOSE i \in DOMAIN array : array[i] = x /\ \A j \in 1..(i - 1) : array[j] # x) - 1
    ELSE -1

\* whether the retry ceiling returns before the switch
\* a ceiling that waits for one more failure
ForcesAdvanceAboveCeiling(currentStage, retryCount) ==
    retryCount > maxRetries /\ indexOf(stages, currentStage) < Len(stages) - 1

ForcesAdvance(currentStage, retryCount) ==
    retryCount >= maxRetries /\ indexOf(stages, currentStage) < Len(stages) - 1

ForcedAdvance(currentState, currentStage) ==
    LET newStage == stages[indexOf(stages, currentStage) + 2]
    IN Result(currentState, newStage, getNextQuestion(currentState, newStage).question,
              FALSE, FALSE, 0)

case_opening(input, state, retryCount) ==
    LET complaint == parseComplaint(input)
        withComplaint == Set(Set(state, "complaint", complaint),
                             "openingDescription", Str(Trim(input)))
        described == Set(state, "openingDescription", Str(Trim(input)))
    IN IF Truthy(complaint)
       THEN Result(withComplaint, "localisation",
                   getNextQuestion(withComplaint, "localisation").question, FALSE, FALSE, 0)
       ELSE IF Len(Trim(input)) > 10
       THEN Result(described, "localisation",
                   "Thank you for explaining. "
                     \o getNextQuestion(described, "localisation").question,
                   FALSE, FALSE, 0)
       ELSE Result(state, "opening", getFallbackPrompt("opening", retryCount),
                   FALSE, FALSE, retryCount + 1)

case_localisation(input, state, retryCount, gen) ==
    LET location == Trim(input)
        located == Set(state, "location", Str(location))
        complaint == parseComplaint(location)
        newState == IF ~Truthy(located["complaint"]) /\ Truthy(complaint)
                    THEN Set(located, "complaint", complaint) ELSE located
    IN IF Len(location) > 0
       THEN Result(newState, "time_start", Reply(newState, "time_start", gen), FALSE, FALSE, 0)
       ELSE Result(state, "localisation", Reply(state, "localisation", gen),
                   FALSE, FALSE, retryCount + 1)

case_time_start(input, state, retryCount, gen) ==
    LET onset == Trim(input)
        newState == Set(state, "onset", Str(onset))
    IN IF Len(onset) > 0
       THEN Result(newState, "time_trend", Reply(newState, "time_trend", gen), FALSE, FALSE, 0)
       ELSE Result(state, "time_start", Reply(state, "time_start", gen),
                   FALSE, FALSE, retryCount + 1)

case_time_trend(input, state, retryCount, gen) ==
    LET trend == ToLowerCase(Trim(input))
        trended == Set(state, "timeTrend", Str(trend))
        newState == IF Includes(trend, "worse") \/ Includes(trend, "worsening")
                    THEN Set(trended, "gettingWorse", Bool(TRUE)) ELSE trended
    IN IF Len(trend) > 0
       THEN Result(newState, "severity", Reply(newState, "severity", gen), FALSE, FALSE, 0)
       ELSE Result(state, "time_trend", Reply(state, "time_trend", gen),
                   FALSE, FALSE, retryCount + 1)

\* a severity case that stores the number before testing its range
case_severityStoresFirst(input, state, retryCount, gen) ==
    LET severity == parseNumber(input)
        newState == IF severity # Null THEN Set(state, "severity", severity) ELSE state
    IN IF severity # Null /\ Val(severity) >= 0 /\ Val(severity) <= 10
       THEN Result(newState, "danger_breathing", Reply(newState, "danger_breathing", gen),
                   FALSE, FALSE, 0)
       ELSE Result(newState, "severity", Reply(newState, "severity", gen),
                   FALSE, FALSE, retryCount + 1)
case_severity(input, state, retryCount, gen) ==
    LET severity == parseNumber(input)
        newState == Set(state, "severity", severity)
    IN IF severity # Null /\ Val(severity) >= 0 /\ Val(severity) <= 10
       THEN Result(newState, "danger_breathing", Reply(newState, "danger_breathing", gen),
                   FALSE, FALSE, 0)
       ELSE Result(state, "severity", Reply(state, "severity", gen),
                   FALSE, FALSE, retryCount + 1)

\* danger_breathing, danger_collapse, danger_bleeding: any yes escalates
case_danger(input, state, stage, field, next, retryCount, gen) ==
    LET answer == parseYesNo(input)
        newState == Set(state, field, answer)
    IN IF answer # Null
       THEN IF answer = Bool(TRUE)
            THEN Escalated(newState)
            ELSE Result(newState, next, Reply(newState, next, gen), FALSE, FALSE, 0)
       ELSE Result(state, stage, Reply(state, stage, gen), FALSE, FALSE, retryCount + 1)

case_danger_severe_pain(input, state, retryCount, gen) ==
    LET answer == parseYesNo(input)
        newState == Set(state, "severePain", answer)
    IN IF answer # Null
       THEN IF answer = Bool(TRUE) /\ Val(Coalesce(newState["severity"], Num(0))) >= 8
            THEN Escalated(newState)
            ELSE Result(newState, "danger_bleeding", Reply(newState, "danger_bleeding", gen),
                        FALSE, FALSE, 0)
       ELSE Result(state, "danger_severe_pain", Reply(state, "danger_severe_pain", gen),
                   FALSE, FALSE, retryCount + 1)

case_danger_confusion(input, state, retryCount, gen) ==
    LET answer == parseYesNo(input)
        newState == Set(state, "confusion", answer)
        newStage == IF getNextQuestion(newState, "red_flags").question = ""
                    THEN "context_conditions" ELSE "red_flags"
    IN IF answer # Null
       THEN IF answer = Bool(TRUE)
            THEN Escalated(newState)
            ELSE Result(newState, newStage, Reply(newState, newStage, gen), FALSE, FALSE, 0)
       ELSE Result(state, "danger_confusion", Reply(state, "danger_confusion", gen),
                   FALSE, FALSE, retryCount + 1)

criticalFlags ==
    {"thunderclap", "nonBlanchingRash", "vomitingBlood", "neurologicalSymptoms",
     "coughingBlood", "bloodyStools"}

case_red_flags(input, state, retryCount, gen) ==
    LET currentQuestion == FirstUnanswered(state)
        answer == parseYesNo(input)
        newState == Set(state, currentQuestion.field, answer)
        nextQ == getNextQuestion(newState, "red_flags")
        toRag(st) == Result(Set(st, "ragQuestionsAsked", Num(0)), "rag_followup", "",
                            FALSE, FALSE, 0)
        generated == generatePatientResponse(newState, "red_flags", gen)
        retried == generatePatientResponse(state, "red_flags", gen)
    IN IF currentQuestion.field # ""
       THEN IF answer # Null
            THEN IF answer = Bool(TRUE) /\ currentQuestion.field \in criticalFlags
                 THEN Escalated(newState)
                 ELSE IF nextQ.question = ""
                 THEN toRag(newState)
                 ELSE Result(newState, "red_flags",
                             IF generated # "" THEN generated ELSE nextQ.question,
                             FALSE, FALSE, 0)
            ELSE Result(state, "red_flags",
                        IF retried # "" THEN retried
                        ELSE getFallbackPrompt("red_flags", retryCount),
                        FALSE, FALSE, retryCount + 1)
       ELSE toRag(state)

\* the follow-up loop going on after the third answer
case_rag_followupFourth(input, state, gen) ==
    LET ragCount == Val(Or(state["ragQuestionsAsked"], Num(0)))
        newState == Set(Set(state, "ragAnswer" \o ToString(ragCount), Str(Trim(input))),
                        "ragQuestionsAsked", Num(ragCount + 1))
    IN IF ragCount < 3
       THEN Result(newState, "rag_followup", "", FALSE, FALSE, 0)
       ELSE Result(newState, "context_conditions",
                   Reply(newState, "context_conditions", gen), FALSE, FALSE, 0)

case_rag_followup(input, state, gen) ==
    LET ragCount == Val(Or(state["ragQuestionsAsked"], Num(0)))
        newState == Set(Set(state, "ragAnswer" \o ToString(ragCount), Str(Trim(input))),
                        "ragQuestionsAsked", Num(ragCount + 1))
    IN IF ragCount < 2
       THEN Result(newState, "rag_followup", "", FALSE, FALSE, 0)
       ELSE Result(newState, "context_conditions",
                   Reply(newState, "context_conditions", gen), FALSE, FALSE, 0)

\* the context answer stored as typed, without the default for a blank one
case_contextAsTyped(input, state, field, default, next, gen) ==
    LET newState == Set(state, field, Str(Trim(input)))
    IN Result(newState, next, Reply(newState, next, gen), FALSE, FALSE, 0)
\* context_conditions, context_medications, context_surgery
case_context(input, state, field, default, next, gen) ==
    LET newState == Set(state, field, Or(Str(Trim(input)), Str(default)))
    IN Result(newState, next, Reply(newState, next, gen), FALSE, FALSE, 0)

\* functional_eat, functional_move
case_functional(input, state, field, next, gen) ==
    LET answer == parseYesNo(input)
        newState == IF answer # Null
                    THEN Set(state, field, answer)
                    ELSE Set(state, field, Bool(~Includes(ToLowerCase(input), "no")))
    IN Result(newState, next, Reply(newState, next, gen), FALSE, FALSE, 0)

case_functional_activities(input, state, gen) ==
    LET answer == parseYesNo(input)
        newState == Set(state, "stoppingActivities",
                        Bool(answer = Bool(TRUE) \/ Includes(ToLowerCase(input), "yes")))
    IN Result(newState, "collect_name", Reply(newState, "collect_name", gen), FALSE, FALSE, 0)

case_collect_name(input, state, retryCount, gen) ==
    LET name == Trim(input)
        newState == Set(state, "patientName", Str(name))
    IN IF Len(name) >= 2
       THEN Result(newState, "summary", Reply(newState, "summary", gen), FALSE, FALSE, 0)
       ELSE Result(state, "collect_name",
                   "I need your full name to complete the assessment. Could you please provide your first and last name?",
                   FALSE, FALSE, retryCount + 1)

-----------------------------------------------------------------------------
(* rules.ts: the rules engine *)

\* a numeric comparison; a value that is not a number compares false
Gte(v, n) == IsNum(v) /\ Val(v) >= n
Gt(v, n) == IsNum(v) /\ Val(v) > n

RECURSIVE Join(_, _)
Join(list, sep) ==
    IF Len(list) = 0 THEN ""
    ELSE IF Len(list) = 1 THEN list[1]
    ELSE list[1] \o sep \o Join(Tail(list), sep)

\* if (cond) flags.push(label)
Push(cond, label) == IF cond THEN <<label>> ELSE << >>

GlobalFlags(answers) ==
    Push(Truthy(answers["confusion"]), "New confusion")
      \o Push(Truthy(answers["severeBleeding"]), "Severe bleeding")
      \o Push(Gte(answers["severity"], 9), "Pain severity 9-10/10")

\* the chest-pain rules applied to every complaint that mentions chest pain
ComplaintFlagsBySubstring(answers, complaint) ==
    CASE Includes(complaint, "chest pain") ->
           Push(Truthy(answers["shortnessOfBreath"]), "Chest pain + SOB")
             \o Push(Truthy(answers["radiatingPain"]), "Radiating pain")
             \o Push(Gt(answers["age"], 50) /\ Gt(answers["severity"], 5),
                     "Age > 50 with moderate chest pain")
             \o Push(Truthy(answers["cardiacHistory"]), "History of heart disease")
      [] complaint = "shortness of breath" ->
           Push(Truthy(answers["cyanosis"]), "Cyanosis (blue lips/skin)")
             \o Push(Truthy(answers["speakingDifficulty"]), "Unable to speak full sentences")
      [] complaint = "abdominal pain" ->
           Push(Truthy(answers["vomitingBlood"]), "Vomiting blood")
             \o Push(Truthy(answers["rigidAbdomen"]), "Rigid abdomen")
             \o Push(Truthy(answers["pregnancy"]) /\ Truthy(answers["bleeding"]),
                     "Pregnancy + bleeding")
      [] complaint = "headache" ->
           Push(Truthy(answers["thunderclap"]), "Sudden 'thunderclap' onset")
             \o Push(Truthy(answers["neckStiffness"]), "Neck stiffness")
             \o Push(Truthy(answers["visualDisturbance"]), "Visual disturbance")
      [] OTHER -> << >>

ComplaintFlags(answers, complaint) ==
    CASE complaint = "chest pain" ->
           Push(Truthy(answers["shortnessOfBreath"]), "Chest pain + SOB")
             \o Push(Truthy(answers["radiatingPain"]), "Radiating pain")
             \o Push(Gt(answers["age"], 50) /\ Gt(answers["severity"], 5),
                     "Age > 50 with moderate chest pain")
             \o Push(Truthy(answers["cardiacHistory"]), "History of heart disease")
      [] complaint = "shortness of breath" ->
           Push(Truthy(answers["cyanosis"]), "Cyanosis (blue lips/skin)")
             \o Push(Truthy(answers["speakingDifficulty"]), "Unable to speak full sentences")
      [] complaint = "abdominal pain" ->
           Push(Truthy(answers["vomitingBlood"]), "Vomiting blood")
             \o Push(Truthy(answers["rigidAbdomen"]), "Rigid abdomen")
             \o Push(Truthy(answers["pregnancy"]) /\ Truthy(answers["bleeding"]),
                     "Pregnancy + bleeding")
      [] complaint = "headache" ->
           Push(Truthy(answers["thunderclap"]), "Sudden 'thunderclap' onset")
             \o Push(Truthy(answers["neckStiffness"]), "Neck stiffness")
             \o Push(Truthy(answers["visualDisturbance"]), "Visual disturbance")
      [] OTHER -> << >>

\* the thresholds consulted before the flags
DetermineBandThresholdsFirst(flags, severity, age) ==
    IF Gte(severity, 6) \/ Gt(age, 75) THEN "Amber"
    ELSE IF Len(flags) > 0 THEN "Red"
    ELSE "Green"

\* the age threshold taken inclusively
DetermineBandFrom75(flags, severity, age) ==
    IF Len(flags) > 0 THEN "Red"
    ELSE IF Gte(severity, 6) \/ Gte(age, 75) THEN "Amber"
    ELSE "Green"

\* Determine Band
DetermineBand(flags, severity, age) ==
    IF Len(flags) > 0 THEN "Red"
    ELSE IF Gte(severity, 6) \/ Gt(age, 75) THEN "Amber"
    ELSE "Green"

evaluateTriage(answers) ==
    LET severity == answers["severity"]
        age == answers["age"]
        complaint == IF IsStr(answers["complaint"])
                     THEN ToLowerCase(Val(answers["complaint"])) ELSE ""
        flags == GlobalFlags(answers) \o ComplaintFlags(answers, complaint)
        band == DetermineBand(flags, severity, age)
    IN [riskBand |-> band,
        redFlags |-> flags,
        summary |-> Text(age) \o "y " \o Text(answers["sex"]) \o " presenting with "
                      \o complaint \o " (Severity " \o Text(severity) \o "/10). Risk: "
                      \o band \o ". Flags: "
                      \o (IF Len(flags) > 0 THEN Join(flags, ", ") ELSE "None") \o "."]

-----------------------------------------------------------------------------
(* chatStateMachine.ts: the final classification of a chat *)

GREEN_RECOMMENDATIONS(complaint) ==
    CASE complaint = "chest pain" ->
           <<"Rest and avoid strenuous physical activity",
             "Monitor your symptoms - if pain worsens or spreads, seek immediate medical attention",
             "Consider over-the-counter antacids if the pain feels like heartburn",
             "Keep a symptom diary noting when pain occurs and what triggers it",
             "Schedule an appointment with your GP within the next few days">>
      [] complaint = "shortness of breath" ->
           <<"Rest in a comfortable position and try to relax",
             "Practice slow, deep breathing exercises",
             "Avoid known triggers such as allergens or strenuous activity",
             "Stay hydrated and keep your environment well-ventilated",
             "Book an appointment with your GP to discuss your symptoms">>
      [] complaint = "abdominal pain" ->
           <<"Stay hydrated with clear fluids",
             "Eat light, bland foods if tolerated",
             "Apply a warm compress to your abdomen for comfort",
             "Avoid spicy, fatty, or acidic foods",
             "Rest and monitor your symptoms - see a GP if they persist beyond 24-48 hours">>
      [] complaint = "headache" ->
           <<"Rest in a quiet, dark room",
             "Stay well hydrated",
             "Consider over-the-counter pain relief like paracetamol or ibuprofen",
             "Apply a cold or warm compress to your forehead or neck",
             "Reduce screen time and take regular breaks from work">>
      [] complaint = "fever" ->
           <<"Rest and get plenty of sleep",
             "Drink plenty of fluids to stay hydrated",
             "Take paracetamol or ibuprofen to help reduce temperature",
             "Wear light clothing and keep your room cool",
             \* the degree signs of the source text are left out
             "Monitor your temperature and seek medical advice if it exceeds 39.4 C (103 F)">>
      [] OTHER -> << >>

getGreenRecommendations(complaint) ==
    LET listed == GREEN_RECOMMENDATIONS(ToLowerCase(complaint))
    IN IF Len(listed) > 0 THEN listed
       ELSE <<"Rest and monitor your symptoms",
              "Stay well hydrated",
              "Take over-the-counter pain relief if needed",
              "Schedule an appointment with your GP if symptoms persist",
              "Return for assessment if your condition worsens">>

\* the keys buildTriageFromChat copies from the state as they are
TriageCopiedFields ==
    {"onset", "location", "duration", "medicalHistory", "medications",
     "troubleBreathing", "collapse", "severePain", "severeBleeding", "confusion",
     "shortnessOfBreath", "radiatingPain", "sweating", "nausea", "cardiacHistory",
     "cyanosis", "speakingDifficulty", "vomitingBlood", "bloodyStools",
     "worseWithMovement", "rigidAbdomen", "pregnancy", "feverWithPain",
     "thunderclap", "neckStiffness", "visualDisturbance", "neurologicalSymptoms",
     "photophobia", "nonBlanchingRash", "canKeepFluids", "wheezing",
     "coughingBlood", "chestPain"}

TriageAnswers(state) ==
    [f \in Fields |->
        CASE f = "complaint" -> Or(state["complaint"], Str(""))
          [] f = "age" -> Or(state["age"], Num(0))
          [] f = "sex" -> Or(state["sex"], Str(""))
          [] f = "severity" -> Or(state["severity"], Num(0))
          [] f \in TriageCopiedFields -> state[f]
          [] OTHER -> Undefined]

\* the recommendations attached whatever the band
buildTriageFromChatAnyBand(state) ==
    LET result == evaluateTriage(TriageAnswers(state))
    IN [riskBand |-> result.riskBand,
        redFlags |-> result.redFlags,
        summary |-> result.summary,
        recommendations |->
            <<"array", getGreenRecommendations(Text(Or(state["complaint"], Str(""))))>>]
\* recommendations is Undefined when the key is absent
buildTriageFromChat(state) ==
    LET result == evaluateTriage(TriageAnswers(state))
    IN [riskBand |-> result.riskBand,
        redFlags |-> result.redFlags,
        summary |-> result.summary,
        recommendations |->
            IF result.riskBand = "Green"
            THEN <<"array", getGreenRecommendations(Text(Or(state["complaint"], Str(""))))>>
            ELSE Undefined]

generateFinalResponse(state) ==
    LET result == buildTriageFromChat(state)
    IN (IF result.riskBand = "Red"
        THEN "Based on your answers, this could be serious and needs urgent medical attention. Please call 999 or go to A&E now."
        ELSE IF result.riskBand = "Amber"
        THEN "This needs to be assessed today. I recommend contacting NHS 111 or attending an urgent care centre today."
        ELSE IF Len(result.redFlags) > 0
        THEN "This doesn't sound immediately dangerous, but you should arrange a GP appointment soon given your symptoms."
        ELSE "This sounds like something that can often be managed at home. I'll share some self-care advice with your assessment.")
       \o SAFETY_NET
       \o "\n\nYour assessment has been recorded and a summary is now available for review."

-----------------------------------------------------------------------------
(* chatStateMachine.ts: processUserMessage, continued *)

\* a rejected summary that keeps the answers
case_summaryKeepsState(input, state, retryCount) ==
    LET confirmed == parseYesNo(input)
    IN IF confirmed = Bool(TRUE)
       THEN Result(state, "complete", generateFinalResponse(state), FALSE, TRUE, 0)
       ELSE IF confirmed = Bool(FALSE)
       THEN Result(state, "opening",
                   "No problem, let's start again. " \o getNextQuestion(state, "opening").question,
                   FALSE, FALSE, 0)
       ELSE Result(state, "summary", "Is the information correct? Please answer yes or no.",
                   FALSE, FALSE, retryCount + 1)

case_summary(input, state, retryCount) ==
    LET confirmed == parseYesNo(input)
    IN IF confirmed = Bool(TRUE)
       THEN Result(state, "complete", generateFinalResponse(state), FALSE, TRUE, 0)
       ELSE IF confirmed = Bool(FALSE)
       THEN Result(EmptyState, "opening",
                   "No problem, let's start again. " \o getNextQuestion(state, "opening").question,
                   FALSE, FALSE, 0)
       ELSE Result(state, "summary", "Is the information correct? Please answer yes or no.",
                   FALSE, FALSE, retryCount + 1)

case_default(state, stage) ==
    Result(state, stage, "Thank you for completing the assessment." \o SAFETY_NET,
           FALSE, TRUE, 0)

\* switch (currentStage)
StageSwitch(input, state, stage, retryCount, gen) ==
    CASE stage = "opening" -> case_opening(input, state, retryCount)
      [] stage = "localisation" -> case_localisation(input, state, retryCount, gen)
      [] stage = "time_start" -> case_time_start(input, state, retryCount, gen)
      [] stage = "time_trend" -> case_time_trend(input, state, retryCount, gen)
      [] stage = "severity" -> case_severity(input, state, retryCount, gen)
      [] stage = "danger_breathing" ->
           case_danger(input, state, stage, "troubleBreathing", "danger_collapse", retryCount, gen)
      [] stage = "danger_collapse" ->
           case_danger(input, state, stage, "collapse", "danger_severe_pain", retryCount, gen)
      [] stage = "danger_severe_pain" -> case_danger_severe_pain(input, state, retryCount, gen)
      [] stage = "danger_bleeding" ->
           case_danger(input, state, stage, "severeBleeding", "danger_confusion", retryCount, gen)
      [] stage = "danger_confusion" -> case_danger_confusion(input, state, retryCount, gen)
      [] stage = "red_flags" -> case_red_flags(input, state, retryCount, gen)
      [] stage = "rag_followup" -> case_rag_followup(input, state, gen)
      [] stage = "context_conditions" ->
           case_context(input, state, "medicalHistory", "None reported", "context_medications", gen)
      [] stage = "context_medications" ->
           case_context(input, state, "medications", "None", "context_surgery", gen)
      [] stage = "context_surgery" ->
           case_context(input, state, "previousSurgery", "None", "functional_eat", gen)
      [] stage = "functional_eat" ->
           case_functional(input, state, "canEatDrink", "functional_move", gen)
      [] stage = "functional_move" ->
           case_functional(input, state, "canMove", "functional_activities", gen)
      [] stage = "functional_activities" -> case_functional_activities(input, state, gen)
      [] stage = "collect_name" -> case_collect_name(input, state, retryCount, gen)
      [] stage = "summary" -> case_summary(input, state, retryCount)
      [] OTHER -> case_default(state, stage)

\* gen is the outcome of the one text-generation call the turn may make; the
\* conversation history is only passed on to that call.
\* the retry ceiling consulted before the emergency check
processUserMessageCeilingFirst(input, currentState, currentStage, retryCount, gen) ==
    IF ForcesAdvance(currentStage, retryCount)
    THEN ForcedAdvance(currentState, currentStage)
    ELSE IF checkEmergencySigns(input)
    THEN Escalated(currentState)
    ELSE StageSwitch(input, currentState, currentStage, retryCount, gen)

processUserMessage(input, currentState, currentStage, retryCount, gen) ==
    IF checkEmergencySigns(input)
    THEN Escalated(currentState)
    ELSE IF ForcesAdvance(currentStage, retryCount)
    THEN ForcedAdvance(currentState, currentStage)
    ELSE StageSwitch(input, currentState, currentStage, retryCount, gen)

-----------------------------------------------------------------------------
(* handoff.ts: fact extraction *)

CONFIDENCE_CRITICAL == 70
CONFIDENCE_DEFAULT == 50

CRITICAL_FACT_KEYS ==
    {"severity_score", "chest_pain", "shortness_of_breath", "collapse", "confusion",
     "severe_bleeding", "fainting", "face_droop", "arm_weakness", "speech_difficulty",
     "thunderclap", "neck_stiffness", "non_blanching_rash", "vomiting_blood",
     "pregnant_possible", "fever"}

\* the fact keys: those of the deterministic projection and those the
\* extraction prompt names
FactKeys ==
    {"age_years", "sex", "chief_complaint", "onset", "duration", "severity_score",
     "location", "shortness_of_breath", "collapse", "confusion", "severe_bleeding",
     "radiating_pain", "thunderclap", "neck_stiffness", "non_blanching_rash",
     "vomiting_blood", "pregnant_possible", "fever", "chest_pain", "fainting",
     "face_droop", "arm_weakness", "speech_difficulty", "progression",
     "associated_symptoms", "vomiting", "bleeding", "allergies", "current_meds",
     "relevant_history"}

\* every key a fact record can hold: the chat state's keys and the fact keys
AllKeys == Fields \cup FactKeys

\* if (state.x != null) m.key = state.x
Copy(state, field) == IF Nullish(state[field]) THEN Undefined ELSE state[field]

deterministicFactsFromState(state) ==
    [k \in FactKeys |->
        CASE k = "age_years" -> Copy(state, "age")
          [] k = "sex" -> Copy(state, "sex")
          [] k = "chief_complaint" ->
               IF ~Nullish(state["openingDescription"]) /\ ~Truthy(Copy(state, "complaint"))
               THEN state["openingDescription"]
               ELSE Copy(state, "complaint")
          [] k = "onset" -> Copy(state, "onset")
          [] k = "duration" -> Copy(state, "duration")
          [] k = "severity_score" -> Copy(state, "severity")
          [] k = "location" -> Copy(state, "location")
          [] k = "shortness_of_breath" ->
               IF ~Nullish(state["troubleBreathing"])
               THEN Coalesce(Copy(state, "shortnessOfBreath"), state["troubleBreathing"])
               ELSE Copy(state, "shortnessOfBreath")
          [] k = "collapse" -> Copy(state, "collapse")
          [] k = "confusion" -> Copy(state, "confusion")
          [] k = "severe_bleeding" -> Copy(state, "severeBleeding")
          [] k = "radiating_pain" -> Copy(state, "radiatingPain")
          [] k = "thunderclap" -> Copy(state, "thunderclap")
          [] k = "neck_stiffness" -> Copy(state, "neckStiffness")
          [] k = "non_blanching_rash" -> Copy(state, "nonBlanchingRash")
          [] k = "vomiting_blood" -> Copy(state, "vomitingBlood")
          [] k = "pregnant_possible" -> Copy(state, "pregnancy")
          [] k = "fever" -> Copy(state, "fever")
          [] OTHER -> Undefined]

IsWordChar(c) ==
    IsDigit(c) \/ c = "_" \/ (\E i \in 1..26 : LowerChars[i] = c \/ UpperChars[i] = c)

\* /\b\d{1,2}\b/ : a run of one or two digits with no word character on either side
StandaloneNumber(text) ==
    \E i \in 1..Len(text) : \E n \in 1..2 :
        /\ i + n - 1 <= Len(text)
        /\ \A j \in i..(i + n - 1) : IsDigit(SubSeq(text, j, j))
        /\ (i = 1 \/ ~IsWordChar(SubSeq(text, i - 1, i - 1)))
        /\ (i + n - 1 = Len(text) \/ ~IsWordChar(SubSeq(text, i + n, i + n)))

\* /\d{1,2}\s*\/\s*10/ : a digit, blanks, a slash, blanks, "10"
OutOfTen(text) ==
    \E i \in 1..Len(text) : \E a \in 0..Len(text) : \E b \in 0..Len(text) :
        /\ IsDigit(SubSeq(text, i, i))
        /\ i + a + 1 + b + 2 <= Len(text)
        /\ \A j \in (i + 1)..(i + a) : IsSpace(SubSeq(text, j, j))
        /\ SubSeq(text, i + a + 1, i + a + 1) = "/"
        /\ \A j \in (i + a + 2)..(i + a + 1 + b) : IsSpace(SubSeq(text, j, j))
        /\ SubSeq(text, i + a + b + 2, i + a + b + 3) = "10"

\* the loose number check applied to every number
foundInConversationAnyNumber(conversationText, value) ==
    LET text == ToLowerCase(conversationText)
    IN CASE IsBool(value) -> TRUE
         [] IsNum(value) ->
              \/ Includes(text, ToString(Val(value)))
              \/ OutOfTen(text) \/ StandaloneNumber(text)
         [] IsStr(value) -> Includes(text, Trim(ToLowerCase(Val(value))))
         [] OTHER -> FALSE

foundInConversation(conversationText, value) ==
    LET text == ToLowerCase(conversationText)
    IN CASE IsBool(value) -> TRUE
         [] IsNum(value) ->
              \/ Includes(text, ToString(Val(value)))
              \/ (Val(value) <= 10 /\ (OutOfTen(text) \/ StandaloneNumber(text)))
         [] IsStr(value) -> Includes(text, Trim(ToLowerCase(Val(value))))
         [] OTHER -> FALSE

\* one assertion of the extractor: {key, value, confidence}
Fact(key, value, confidence) == [key |-> key, value |-> value, confidence |-> confidence]

\* a < n in JavaScript: false when a is undefined
Lt(v, n) == IsNum(v) /\ Val(v) < n

\* one threshold for every key
ThresholdDefaultOnly(key) == CONFIDENCE_DEFAULT

Threshold(key) ==
    IF key \in CRITICAL_FACT_KEYS THEN CONFIDENCE_CRITICAL ELSE CONFIDENCE_DEFAULT

\* whether the loop over result.facts goes on to the assignment for this fact
Admitted(fact, patientMessages) ==
    /\ ~Lt(fact.confidence, Threshold(fact.key))
    /\ ~(/\ fact.key \in CRITICAL_FACT_KEYS
         /\ ~IsBool(fact.value)
         /\ ~foundInConversation(patientMessages, fact.value))

Diverges(fact, deterministic) ==
    /\ fact.key \in DOMAIN deterministic
    /\ deterministic[fact.key] # Undefined
    /\ deterministic[fact.key] # fact.value

Divergence(sessionId, key, llmValue, stateValue) ==
    [sessionId |-> sessionId, key |-> key, llmValue |-> llmValue, stateValue |-> stateValue]

\* a null among the entries of result.facts or result.negations: reading its
\* key raises a TypeError, which leaves the loop and the try block
NullEntry == [isNull |-> TRUE]

RaisesTypeError(list) == \E i \in DOMAIN list : list[i] = NullEntry

\* for (const fact of result.facts): acc holds facts and the divergences emitted
\* up to the end of the list or to the entry that raises
RECURSIVE AdmitFacts(_, _, _, _, _)
AdmitFacts(list, acc, deterministic, patientMessages, sessionId) ==
    IF Len(list) = 0 \/ Head(list) = NullEntry THEN acc
    ELSE LET fact == Head(list)
             next ==
                 IF Admitted(fact, patientMessages)
                 THEN [facts |-> [acc.facts EXCEPT ![fact.key] = fact.value],
                       divergences |->
                           IF Diverges(fact, deterministic)
                           THEN Append(acc.divergences,
                                       Divergence(sessionId, fact.key, fact.value,
                                                  deterministic[fact.key]))
                           ELSE acc.divergences]
                 ELSE acc
         IN AdmitFacts(Tail(list), next, deterministic, patientMessages, sessionId)

\* the negations admitted at the default threshold whatever the key
RECURSIVE AdmitNegationsAtDefault(_, _)
AdmitNegationsAtDefault(list, acc) ==
    IF Len(list) = 0 \/ Head(list) = NullEntry THEN acc
    ELSE LET neg == Head(list)
             next == IF Lt(neg.confidence, CONFIDENCE_DEFAULT)
                     THEN acc
                     ELSE [acc EXCEPT !.facts[neg.key] = Bool(FALSE)]
         IN AdmitNegationsAtDefault(Tail(list), next)

\* for (const neg of result.negations)
RECURSIVE AdmitNegations(_, _)
AdmitNegations(list, acc) ==
    IF Len(list) = 0 \/ Head(list) = NullEntry THEN acc
    ELSE LET neg == Head(list)
             next == IF Lt(neg.confidence, Threshold(neg.key))
                     THEN acc
                     ELSE [acc EXCEPT !.facts[neg.key] = Bool(FALSE)]
         IN AdmitNegations(Tail(list), next)

\* messages.filter(m => m.role === "user").map(m => m.content).join("\n")
PatientMessages(messages) ==
    Join([i \in 1..Len(SelectSeq(messages, LAMBDA m : m.role = "user")) |->
              SelectSeq(messages, LAMBDA m : m.role = "user")[i].content], "\n")

\* { ...existingFacts, ...deterministic }
MergedFacts(existingFacts, deterministic) ==
    [k \in AllKeys |->
        IF k \in FactKeys /\ deterministic[k] # Undefined THEN deterministic[k]
        ELSE IF k \in Fields THEN existingFacts[k]
        ELSE Undefined]

\* The outcome of the extraction call: Throw, Malformed (the content is not
\* JSON), or the parsed object, here with its facts and negations lists.
Malformed == <<"malformed">>
Extraction(facts, negations) == <<"object", [facts |-> facts, negations |-> negations]>>

\* returns the fact record and, in order, the divergences passed to onDivergence
extractFactsFromMessages(messages, existingFacts, sessionId, llm) ==
    LET patientMessages == PatientMessages(messages)
        deterministic == deterministicFactsFromState(existingFacts)
        start == [facts |-> MergedFacts(existingFacts, deterministic), divergences |-> << >>]
    IN IF Trim(patientMessages) = "" THEN start
       ELSE IF llm = Throw \/ llm = Malformed THEN start
       ELSE LET admitted == AdmitFacts(llm[2].facts, start, deterministic,
                                       patientMessages, sessionId)
            IN IF RaisesTypeError(llm[2].facts) THEN admitted
               ELSE AdmitNegations(llm[2].negations, admitted)

-----------------------------------------------------------------------------
(* handoff.ts: red-flag evaluation *)

Arr(list) == <<"array", list>>
Criterion(fact, op, value) == [fact |-> fact, op |-> op, value |-> value]
Rule(code, label, evidence_prompt, criteria_all, criteria_any) ==
    [code |-> code, label |-> label, evidence_prompt |-> evidence_prompt,
     criteria_all |-> criteria_all, criteria_any |-> criteria_any]

\* redFlagRules.json is read from disk at load time; the table below follows
\* the rule shape the design gives: a code, a label, an evidence prompt and
\* criteria_all and / or criteria_any over fact keys with eq, gte and lte.
redFlagRules ==
    <<Rule("RF_CHEST_SOB", "Chest pain with shortness of breath",
           "Patient reports chest pain together with breathlessness",
           Arr(<<Criterion("chest_pain", "eq", Bool(TRUE)),
                 Criterion("shortness_of_breath", "eq", Bool(TRUE))>>), Undefined),
      Rule("RF_SEVERE_PAIN", "Severe pain (9-10/10)",
           "Patient rates the pain 9 or 10 out of 10",
           Arr(<<Criterion("severity_score", "gte", Num(9))>>), Undefined),
      Rule("RF_STROKE", "Possible stroke signs",
           "Face droop, arm weakness or speech difficulty reported",
           Undefined,
           Arr(<<Criterion("face_droop", "eq", Bool(TRUE)),
                 Criterion("arm_weakness", "eq", Bool(TRUE)),
                 Criterion("speech_difficulty", "eq", Bool(TRUE))>>)),
      Rule("RF_MENINGISM", "Fever with neck stiffness or non-blanching rash",
           "Fever reported with a stiff neck or a rash that does not fade",
           Arr(<<Criterion("fever", "eq", Bool(TRUE)),
                 Criterion("neck_stiffness", "eq", Bool(TRUE))>>),
           Arr(<<Criterion("non_blanching_rash", "eq", Bool(TRUE))>>)),
      Rule("RF_INFANT_FEVER", "Fever in an infant",
           "Fever reported in a child aged one year or under",
           Arr(<<Criterion("fever", "eq", Bool(TRUE)),
                 Criterion("age_years", "lte", Num(1))>>), Undefined),
      Rule("RF_THUNDERCLAP", "Thunderclap headache",
           "Headache that came on suddenly",
           Arr(<<Criterion("thunderclap", "eq", Bool(TRUE))>>), Undefined)>>

\* eq with the loose equality, for which 1 equals true
CriterionHoldsLoosely(criterion, facts) ==
    LET factValue == facts[criterion.fact]
    IN CASE criterion.op = "eq" ->
              \/ factValue = criterion.value
              \/ criterion.value = Bool(TRUE) /\ factValue = Num(1)
         [] criterion.op = "gte" -> IsNum(factValue) /\ Val(factValue) >= Val(criterion.value)
         [] criterion.op = "lte" -> IsNum(factValue) /\ Val(factValue) <= Val(criterion.value)
         [] OTHER -> FALSE

\* one criterion against the fact record
CriterionHolds(criterion, facts) ==
    LET factValue == facts[criterion.fact]
    IN CASE criterion.op = "eq" -> factValue = criterion.value
         [] criterion.op = "gte" -> IsNum(factValue) /\ Val(factValue) >= Val(criterion.value)
         [] criterion.op = "lte" -> IsNum(factValue) /\ Val(factValue) <= Val(criterion.value)
         [] OTHER -> FALSE

RuleMatches(rule, facts) ==
    LET all == rule.criteria_all # Undefined
                 /\ \A i \in DOMAIN rule.criteria_all[2] :
                        CriterionHolds(rule.criteria_all[2][i], facts)
        any == rule.criteria_any # Undefined
                 /\ \E i \in DOMAIN rule.criteria_any[2] :
                        CriterionHolds(rule.criteria_any[2][i], facts)
    IN all \/ any

\* the fact keys of the rule's criteria_all and criteria_any
requiredFacts(rule) ==
    (IF rule.criteria_all # Undefined
     THEN {rule.criteria_all[2][i].fact : i \in DOMAIN rule.criteria_all[2]} ELSE {})
      \cup
    (IF rule.criteria_any # Undefined
     THEN {rule.criteria_any[2][i].fact : i \in DOMAIN rule.criteria_any[2]} ELSE {})

\* fact in facts
HasKey(facts, key) == key \in DOMAIN facts /\ facts[key] # Undefined

\* a rule counted as assessed only when all of its facts are known
ClassifyAllKnown(rule, facts, lists) ==
    IF RuleMatches(rule, facts)
    THEN [lists EXCEPT !.triggered =
              Append(@, [code |-> rule.code, label |-> rule.label,
                         evidence |-> rule.evidence_prompt])]
    ELSE IF \A fact \in requiredFacts(rule) : HasKey(facts, fact)
    THEN [lists EXCEPT !.notTriggered = Append(@, rule.label)]
    ELSE [lists EXCEPT !.notAssessed = Append(@, rule.label)]

\* a rule none of whose facts is known left out of the result
ClassifyAssessedOnly(rule, facts, lists) ==
    IF RuleMatches(rule, facts)
    THEN [lists EXCEPT !.triggered =
              Append(@, [code |-> rule.code, label |-> rule.label,
                         evidence |-> rule.evidence_prompt])]
    ELSE IF \E fact \in requiredFacts(rule) : HasKey(facts, fact)
    THEN [lists EXCEPT !.notTriggered = Append(@, rule.label)]
    ELSE lists

\* one pass of the loop over the rules: the rule is pushed to one list
Classify(rule, facts, lists) ==
    IF RuleMatches(rule, facts)
    THEN [lists EXCEPT !.triggered =
              Append(@, [code |-> rule.code, label |-> rule.label,
                         evidence |-> rule.evidence_prompt])]
    ELSE IF \E fact \in requiredFacts(rule) : HasKey(facts, fact)
    THEN [lists EXCEPT !.notTriggered = Append(@, rule.label)]
    ELSE [lists EXCEPT !.notAssessed = Append(@, rule.label)]

RECURSIVE EvaluateRules(_, _, _)
EvaluateRules(rules, facts, lists) ==
    IF Len(rules) = 0 THEN lists
    ELSE EvaluateRules(Tail(rules), facts, Classify(Head(rules), facts, lists))

evaluateRedFlags(facts) ==
    EvaluateRules(redFlagRules, facts,
                  [triggered |-> << >>, notTriggered |-> << >>, notAssessed |-> << >>])

-----------------------------------------------------------------------------
(* handoff.ts: the handoff *)

\* the keys buildAnswersFromState defaults to false
AnswerFalseDefaults ==
    {"collapse", "confusion", "severeBleeding", "radiatingPain", "sweating", "nausea",
     "cardiacHistory", "thunderclap", "neckStiffness", "visualDisturbance",
     "neurologicalSymptoms", "nonBlanchingRash", "vomitingBlood", "bloodyStools",
     "pregnancy", "fever"}

\* the listed defaults, then ...state: every key of the state overrides
buildAnswersFromState(state) ==
    [f \in Fields |->
        IF state[f] # Undefined THEN state[f]
        ELSE CASE f = "complaint" -> Str("")
               [] f = "age" -> Num(0)
               [] f = "sex" -> Str("")
               [] f = "severity" -> Num(0)
               [] f = "shortnessOfBreath" -> Or(state["troubleBreathing"], Bool(FALSE))
               [] f \in AnswerFalseDefaults -> Bool(FALSE)
               [] OTHER -> Undefined]

\* rf => ({ flag: rf.label, evidence: rf.evidence })
FormatTriggered(triggeredRedFlags) ==
    [i \in 1..Len(triggeredRedFlags) |->
        [flag |-> triggeredRedFlags[i].label, evidence |-> triggeredRedFlags[i].evidence]]

createMinimalHandoff(state, triageResult, triggeredRedFlags, notTriggered, notAssessed) ==
    [presenting_complaint |->
        [chief_complaint |->
             Text(Or(state["complaint"], Or(state["openingDescription"], Str("Not specified")))),
         onset |-> Text(Or(state["onset"], Str("Not specified"))),
         duration |-> Text(Or(state["duration"], Str("Not specified"))),
         severity |-> IF state["severity"] # Undefined
                      THEN Text(state["severity"]) \o "/10" ELSE "Not rated",
         location |-> Text(Or(state["location"], Str("Not specified"))),
         associated_symptoms |-> << >>],
     key_positives |-> << >>,
     key_negatives |-> << >>,
     red_flags |->
        [triggered |-> FormatTriggered(triggeredRedFlags),
         not_triggered |-> notTriggered,
         not_assessed |-> notAssessed],
     severity |->
        [rules_engine_category |-> ToUpperCase(triageResult.riskBand),
         ai_suggested_category |-> ToUpperCase(triageResult.riskBand),
         ai_confidence |-> "LOW",
         rationale |-> triageResult.summary],
     differentials |-> << >>,
     consultation_focus |->
        [questions_to_confirm |-> << >>, exam_checks |-> << >>,
         immediate_actions |-> << >>,
         safety_net |-> "If symptoms worsen, seek urgent medical attention."],
     summary_for_reception |-> triageResult.summary]

\* The outcome of the handoff generation call: Throw, Malformed (the content
\* is not JSON), or the parsed value: <<"object", h>> where h carries the
\* narrative and, each an <<"object", ...>> or not, severity and red_flags.
IsObject(v) == v[1] = "object"

\* obj.key: undefined when the object has no such key
Prop(obj, key) == IF key \in DOMAIN obj THEN obj[key] ELSE Undefined

\* the generator's own category and red flags kept where it gave them
generateHandoffAsGenerated(state, triggeredRedFlags, notTriggered, notAssessed, llm) ==
    LET triageResult == evaluateTriage(buildAnswersFromState(state))
        rulesSeverity == ToUpperCase(triageResult.riskBand)
        minimal == createMinimalHandoff(state, triageResult, triggeredRedFlags,
                                        notTriggered, notAssessed)
    IN IF llm = Throw \/ llm = Malformed \/ ~IsObject(llm) THEN minimal
       ELSE IF ~IsObject(Prop(llm[2], "severity")) \/ ~IsObject(Prop(llm[2], "red_flags"))
       THEN minimal
       ELSE [severity |-> llm[2].severity[2] @@ [rules_engine_category |-> rulesSeverity],
             red_flags |-> llm[2].red_flags[2]
                             @@ [triggered |-> FormatTriggered(triggeredRedFlags),
                                 not_triggered |-> notTriggered,
                                 not_assessed |-> notAssessed]]
              @@ llm[2]

\* the generator's failures caught, but not the failure of the assignments on
\* what it returned: the parsed value goes back to the caller as it came
generateHandoffCatchParseOnly(state, triggeredRedFlags, notTriggered, notAssessed, llm) ==
    LET triageResult == evaluateTriage(buildAnswersFromState(state))
        rulesSeverity == ToUpperCase(triageResult.riskBand)
        minimal == createMinimalHandoff(state, triageResult, triggeredRedFlags,
                                        notTriggered, notAssessed)
    IN IF llm = Throw \/ llm = Malformed THEN minimal
       ELSE IF ~IsObject(llm) THEN [error |-> "TypeError"]
       ELSE IF ~IsObject(Prop(llm[2], "severity")) \/ ~IsObject(Prop(llm[2], "red_flags"))
       THEN llm[2]
       ELSE [severity |-> [rules_engine_category |-> rulesSeverity] @@ llm[2].severity[2],
             red_flags |-> [triggered |-> FormatTriggered(triggeredRedFlags),
                            not_triggered |-> notTriggered,
                            not_assessed |-> notAssessed] @@ llm[2].red_flags[2]]
              @@ llm[2]
\* generateHandoff once the retrieval has answered, llm being the outcome of
\* the generation call.  After JSON.parse come two assignments; assigning a
\* property of a value that is no object throws, and the catch answers with
\* the minimal handoff.
generateHandoff(state, triggeredRedFlags, notTriggered, notAssessed, llm) ==
    LET answers == buildAnswersFromState(state)
        triageResult == evaluateTriage(answers)
        rulesSeverity == ToUpperCase(triageResult.riskBand)
        minimal == createMinimalHandoff(state, triageResult, triggeredRedFlags,
                                        notTriggered, notAssessed)
    IN IF llm = Throw \/ llm = Malformed \/ ~IsObject(llm) THEN minimal
       ELSE IF ~IsObject(Prop(llm[2], "severity")) \/ ~IsObject(Prop(llm[2], "red_flags"))
       THEN minimal
       ELSE [severity |-> [rules_engine_category |-> rulesSeverity] @@ llm[2].severity[2],
             red_flags |-> [triggered |-> FormatTriggered(triggeredRedFlags),
                            not_triggered |-> notTriggered,
                            not_assessed |-> notAssessed] @@ llm[2].red_flags[2]]
              @@ llm[2]

-----------------------------------------------------------------------------
(* chatStateMachine.ts: the follow-up question *)

ragFallbackQuestions ==
    <<"Based on your symptoms, have you experienced any similar episodes in the past?",
      "Have you noticed if your symptoms are worse at any particular time of day?",
      "Is there anything else that you think might be relevant to your symptoms that we haven't discussed?">>

\* returns the question as a string value, or Null
generateRAGQuestion(state, ragContext, gen) ==
    LET ragCount == Val(Or(state["ragQuestionsAsked"], Num(0)))
        question == IF IsStr(gen) THEN Str(Trim(Val(gen))) ELSE Undefined
    IN IF Trim(ragContext) = "" THEN Null
       ELSE IF gen = Throw
       THEN IF ragCount < Len(ragFallbackQuestions)
            THEN Str(ragFallbackQuestions[ragCount + 1]) ELSE Null
       ELSE Or(question, Null)

-----------------------------------------------------------------------------
(* routes.ts: the chat endpoints *)

\* Bounds of the exploration: the turns processed on the session, and those of
\* them that end with a retry count above zero.
MaxTurns == 22
MaxFailedTurns == 4

\* the patient's messages considered at each stage
UserMessages(stage) ==
    CASE stage = "opening" ->
           {"Shortness of breath", "my leg is sore", "x", "I can't breathe"}
      [] stage = "localisation" -> {"leg", " ", "Heavy bleeding"}
      [] stage = "time_start" -> {"today", " ", "I can't breathe"}
      [] stage = "time_trend" -> {"Worse", " ", "I can't breathe"}
      [] stage = "severity" -> {"9", "it is 3", "12", "x", "I can't breathe"}
      [] stage \in {"context_conditions", "context_medications"} ->
           {"asthma", "I can't breathe"}
      [] stage = "context_surgery" -> {" ", "I can't breathe"}
      [] stage = "rag_followup" -> {"no", "I can't breathe"}
      [] stage \in {"functional_eat", "functional_move"} -> {"yes", "x", "I can't breathe"}
      [] stage = "functional_activities" -> {"Yes", "x", "I can't breathe"}
      [] stage = "collect_name" -> {"Al", "x", " ", "I can't breathe"}
      [] OTHER -> {"yes", "no", "x", "I can't breathe"}

\* the outcomes considered for the turn's dialogue text-generation call
GenOutcomes == {Str("Thanks. Can you tell me a bit more?"), Throw}

\* the guidance text matched for the follow-up question: none, or some
RagContexts == {"", "Ask about previous episodes."}

\* the outcomes considered for the three calls of a completing turn, in
\* order extraction, guidance retrieval and handoff generation: the first and
\* the last fail, or all answer, or the retrieval fails
CompletionOutcomes ==
    {<<Throw, Arr(<< >>), Throw>>,
     <<Extraction(<<Fact("fainting", Bool(TRUE), Num(90))>>, << >>),
       Arr(<< >>),
       <<"object",
         [summary_for_reception |-> "Patient needs review.",
          severity |-> <<"object", [rules_engine_category |-> "GREEN",
                                    ai_suggested_category |-> "AMBER",
                                    ai_confidence |-> "MEDIUM",
                                    rationale |-> "As reported."]>>,
          red_flags |-> <<"object", [triggered |-> << >>, not_triggered |-> << >>,
                                     not_assessed |-> << >>]>>]>> >>,
     <<Throw, Throw, Throw>>}

NoTurn ==
    [input |-> "", stage |-> "", retryCount |-> 0, newStage |-> "", response |-> "",
     isEscalation |-> FALSE, isComplete |-> FALSE, newRetryCount |-> 0]

\* storage.createChatSession and POST /api/chat/start
NewSession ==
    [stage |-> "opening", state |-> EmptyState, retryCount |-> 0, status |-> "active",
     submissionId |-> 0, handoffJson |-> Undefined]

\* the RAG follow-up step of the handler, applied to processUserMessage's result
RagStep(result, ragContext, gen) ==
    LET ragQuestion == generateRAGQuestion(result.newState, ragContext, gen)
    IN IF result.newStage = "rag_followup" /\ result.response = ""
       THEN IF Truthy(ragQuestion)
            THEN [result EXCEPT !.response = Val(ragQuestion)]
            ELSE [result EXCEPT
                    !.newStage = "context_conditions",
                    !.response = getNextQuestion(result.newState, "context_conditions").question]
       ELSE result

\* the submission with the band the handoff suggests in place of the rules
\* engine's
AutoSubmissionAsSuggested(result, handoff) ==
    LET triageResult == buildTriageFromChat(result.newState)
        patientName == Text(Or(result.newState["patientName"], Str("Patient")))
        patientAge == Or(result.newState["age"], Num(0))
    IN [age |-> patientAge,
        sex |-> Text(Or(result.newState["sex"], Str("Unknown"))),
        complaint |-> Text(Or(result.newState["complaint"],
                              Or(result.newState["openingDescription"], Str("Unknown")))),
        riskBand |-> handoff.severity.ai_suggested_category,
        redFlags |-> IF result.isEscalation
                     THEN Append(triageResult.redFlags, "Emergency escalation triggered")
                     ELSE triageResult.redFlags,
        summary |-> IF "summary_for_reception" \in DOMAIN handoff
                       /\ handoff.summary_for_reception # ""
                    THEN handoff.summary_for_reception
                    ELSE "Case #" \o ToString(Len(submissions) + 1) \o " - " \o patientName
                           \o " (Age " \o Text(patientAge) \o "): " \o triageResult.summary]
\* the submission the handler creates for a completed turn
AutoSubmission(result, handoff) ==
    LET triageResult == buildTriageFromChat(result.newState)
        patientName == Text(Or(result.newState["patientName"], Str("Patient")))
        patientAge == Or(result.newState["age"], Num(0))
    IN [age |-> patientAge,
        sex |-> Text(Or(result.newState["sex"], Str("Unknown"))),
        complaint |-> Text(Or(result.newState["complaint"],
                              Or(result.newState["openingDescription"], Str("Unknown")))),
        riskBand |-> IF result.isEscalation THEN "Red" ELSE triageResult.riskBand,
        redFlags |-> IF result.isEscalation
                     THEN Append(triageResult.redFlags, "Emergency escalation triggered")
                     ELSE triageResult.redFlags,
        summary |-> IF "summary_for_reception" \in DOMAIN handoff
                       /\ handoff.summary_for_reception # ""
                    THEN handoff.summary_for_reception
                    ELSE "Case #" \o ToString(Len(submissions) + 1) \o " - " \o patientName
                           \o " (Age " \o Text(patientAge) \o "): " \o triageResult.summary]

\* The handoff of a completed turn: extraction, red-flag evaluation, assembly.
\* The extraction is given the turn's message; the outcomes considered for it
\* hold boolean facts only, which the rest of the history cannot gate.
\* generateHandoff awaits the retrieval before its try block, so a failed
\* retrieval fails the call: the value is Throw, or the handoff as an object.
TurnHandoff(message, result, extraction, retrieval, generation) ==
    LET facts == extractFactsFromMessages(<<[role |-> "user", content |-> message]>>,
                                          result.newState, 1, extraction).facts
        redFlagResults == evaluateRedFlags(facts)
    IN IF retrieval = Throw THEN Throw
       ELSE <<"object",
              generateHandoff(result.newState, redFlagResults.triggered,
                              redFlagResults.notTriggered, redFlagResults.notAssessed,
                              generation)>>

\* The session row and the submissions after the handler's writes.  The
\* session is updated before the submission is made: when the handoff call
\* fails the handler answers 500 with the session already closed.
Stored(result, handoff) ==
    LET newStatus == IF result.isEscalation THEN "escalated"
                     ELSE IF result.isComplete THEN "completed" ELSE "active"
        updated == [session EXCEPT !.stage = result.newStage,
                                   !.state = result.newState,
                                   !.status = newStatus,
                                   !.retryCount = result.newRetryCount]
    IN IF result.isComplete /\ handoff # Throw
       THEN /\ submissions' = Append(submissions, AutoSubmission(result, handoff[2]))
            /\ session' = [updated EXCEPT !.submissionId = Len(submissions) + 1,
                                          !.handoffJson = handoff]
       ELSE /\ submissions' = submissions
            /\ session' = updated

\* POST /api/chat/message on the session, the request running to its end.
\* The outcomes of the guidance lookup and of the two calls of a completing
\* turn are drawn where the handler makes them.
PostChatMessage(message, gen) ==
    /\ session.status = "active"
    /\ message # ""
    /\ turns < MaxTurns
    /\ \E processed \in {processUserMessage(message, session.state, session.stage,
                                            session.retryCount, gen)} :
       \E ragContext \in IF processed.newStage = "rag_followup" /\ processed.response = ""
                         THEN RagContexts ELSE {""} :
       \E result \in {RagStep(processed, ragContext, gen)} :
       \E outcome \in IF result.isComplete THEN CompletionOutcomes ELSE {<<Throw, Throw, Throw>>} :
          /\ result.newRetryCount > 0 => failures < MaxFailedTurns
          /\ turns' = turns + 1
          /\ failures' = IF result.newRetryCount > 0 THEN failures + 1 ELSE failures
          /\ last' = [input |-> message, stage |-> session.stage,
                      retryCount |-> session.retryCount, newStage |-> result.newStage,
                      response |-> result.response, isEscalation |-> result.isEscalation,
                      isComplete |-> result.isComplete,
                      newRetryCount |-> result.newRetryCount]
          /\ Stored(result, TurnHandoff(message, result, outcome[1], outcome[2], outcome[3]))
    /\ UNCHANGED <<call, ret>>

NoCall == [fn |-> "none"]

Init ==
    /\ session = NewSession
    /\ submissions = << >>
    /\ last = NoTurn
    /\ turns = 0
    /\ failures = 0
    /\ call = NoCall
    /\ ret = NoCall

Next ==
    \E message \in UserMessages(session.stage), gen \in GenOutcomes :
        PostChatMessage(message, gen)

Spec == Init /\ [][Next]_vars

-----------------------------------------------------------------------------
(* Properties of the dialogue, checked under Spec *)

\* the messages of UserMessages that hold an emergency keyword
EmergencyMessages == {"I can't breathe", "Heavy bleeding"}

TerminalStages == {"complete", "escalated"}

\* C1: whatever the stage and the stored retry count, a turn whose raw input
\* holds an emergency keyword returns newStage = escalated, isEscalation,
\* isComplete, newRetryCount = 0 and the fixed emergency message, which names
\* 999 and A&E; the state is returned as it was, so neither the stage's parser
\* nor the retry ceiling acted first.
C1_EmergencyEscalates ==
    [][last'.input \in EmergencyMessages =>
         /\ last'.newStage = "escalated"
         /\ last'.isEscalation /\ last'.isComplete
         /\ last'.newRetryCount = 0
         /\ last'.response = EMERGENCY_RESPONSE
         /\ Includes(last'.response, "999") /\ Includes(last'.response, "A&E")
         /\ session'.state = session.state
         /\ session'.stage = "escalated" /\ session'.status = "escalated"]_vars

\* an emergency message sent at the retry ceiling, where a forced advance
\* would otherwise answer
C1_Witness ==
    /\ last.input \in EmergencyMessages
    /\ last.stage = "severity" /\ last.retryCount = maxRetries
    /\ last.newStage = "escalated"

C4_SummaryWitness ==
    session.stage = "summary" /\ session.retryCount = maxRetries + 1

\* C5: at collect_name an input whose trimmed length is below 2 keeps the
\* session at collect_name whatever the retry count, and the session leaves
\* collect_name only for summary (a valid name) or escalated (an emergency).
C5_NameIsMandatory ==
    [][session.stage = "collect_name" =>
         /\ Len(Trim(last'.input)) < 2 => session'.stage = "collect_name"
         /\ session'.stage \in {"collect_name", "summary", "escalated"}]_vars

\* the turn on which the code parts from C5
C5_Divergence ==
    /\ last.stage = "collect_name" /\ last.retryCount = maxRetries
    /\ last.input = "x"
    /\ last.newStage = "opening"


\* C12: a field of the state that holds an answer (ragQuestionsAsked aside)
\* keeps its value on every later turn, unless the turn is the rejected
\* summary that empties the whole state; and the stage comes back to opening
\* only on that turn.
C12_AnswersAreKept ==
    [][/\ \A f \in Fields \ {"ragQuestionsAsked"} :
             session.state[f] # Undefined
                => \/ session'.state[f] = session.state[f]
                   \/ session.stage = "summary" /\ session'.state = EmptyState
       /\ (session.stage # "opening" /\ session'.stage = "opening")
             => session.stage = "summary" /\ session'.state = EmptyState]_vars

\* the turn on which the code parts from C12: the session came back to opening
\* from collect_name with its answers kept, and the new opening answer has
\* replaced the description given the first time
C12_Divergence ==
    /\ last.stage = "opening" /\ last.newStage = "localisation"
    /\ last.input = "Shortness of breath"
    /\ session.state["openingDescription"] = Str("Shortness of breath")
    /\ session.state["medicalHistory"] # Undefined
    /\ session.state["ragQuestionsAsked"] = Undefined
\* C14: the band and the red flags stored on the submission of a finished
\* session are what the rules engine gives for the session's final state,
\* with Red and the escalation entry when the session escalated; what the
\* generation service returned for the dialogue, the extraction or the
\* handoff changes neither.
C14_RulesDecide ==
    session.submissionId # 0 =>
        LET submission == submissions[session.submissionId]
            rules == evaluateTriage(TriageAnswers(session.state))
            escalated == session.status = "escalated"
        IN /\ submission.riskBand = IF escalated THEN "Red" ELSE rules.riskBand
           /\ submission.redFlags
                = IF escalated
                  THEN Append(rules.redFlags, "Emergency escalation triggered")
                  ELSE rules.redFlags

\* a confirmed summary whose handoff came back suggesting AMBER, stored Green
C14_Witness ==
    /\ session.status = "completed" /\ session.submissionId # 0
    /\ session.handoffJson[2].severity.ai_suggested_category = "AMBER"
    /\ session.handoffJson[2].summary_for_reception = "Patient needs review."
    /\ submissions[session.submissionId].riskBand = "Green"
    /\ submissions[session.submissionId].redFlags = << >>
\* C15: on every turn, what processUserMessage returns for the state, the
\* stage, the retry count, the escalation and the completion is the same
\* whether the generation call answers or fails; and where the call is made
\* and fails, the response is the fixed question of the resulting stage.
C15_GenerationIsPhrasingOnly ==
    [][\A answered \in GenOutcomes \ {Throw} :
       \A failed \in {processUserMessage(last'.input, session.state, session.stage,
                                         session.retryCount, Throw)} :
       \A phrased \in {processUserMessage(last'.input, session.state, session.stage,
                                          session.retryCount, answered)} :
          /\ failed.newState = phrased.newState
          /\ failed.newStage = phrased.newStage
          /\ failed.newRetryCount = phrased.newRetryCount
          /\ failed.isEscalation = phrased.isEscalation
          /\ failed.isComplete = phrased.isComplete
          /\ phrased.response = Val(answered)
                => /\ failed.response
                        = getNextQuestion(failed.newState, failed.newStage).question
                   /\ failed.response # ""]_vars

\* a turn whose generation call failed: the severity is stored, the stage
\* advances and the response is the first danger question
C15_Witness ==
    /\ last.stage = "severity" /\ last.input = "9"
    /\ last.newStage = "danger_breathing"
    /\ session.state["severity"] = Num(9)
    /\ last.response = getNextQuestion(session.state, "danger_breathing").question
    /\ last.response # "Thanks. Can you tell me a bit more?"
\* the stage that follows each danger check on a no
AfterDanger(stage) ==
    CASE stage = "danger_breathing" -> {"danger_collapse"}
      [] stage = "danger_collapse" -> {"danger_severe_pain"}
      [] stage = "danger_severe_pain" -> {"danger_bleeding"}
      [] stage = "danger_bleeding" -> {"danger_confusion"}
      [] stage = "danger_confusion" -> {"red_flags", "context_conditions"}

DangerStages ==
    {"danger_breathing", "danger_collapse", "danger_severe_pain", "danger_bleeding",
     "danger_confusion"}

\* C18: at a danger check, an input without emergency keyword that parses as
\* yes escalates at once on breathing, collapse, bleeding and confusion; on
\* severe pain it escalates exactly when the stored severity is 8 or more and
\* otherwise advances; an input that parses as no never escalates and
\* advances to the next stage.
C18_DangerChecks ==
    [][(session.stage \in DangerStages /\ ~checkEmergencySigns(last'.input)) =>
         LET answer == parseYesNo(last'.input)
             severe == /\ IsNum(session.state["severity"])
                       /\ Val(session.state["severity"]) >= 8
             escalated == /\ session'.stage = "escalated"
                          /\ last'.isEscalation /\ last'.isComplete
         IN /\ (answer = Bool(TRUE) /\ session.stage # "danger_severe_pain") => escalated
            /\ (answer = Bool(TRUE) /\ session.stage = "danger_severe_pain")
                  => /\ escalated <=> severe
                     /\ ~severe => session'.stage = "danger_bleeding"
            /\ answer = Bool(FALSE)
                  => /\ ~last'.isEscalation
                     /\ session'.stage \in AfterDanger(session.stage)]_vars

\* the turn on which the code parts from C18: a yes to the breathing question
\* at stored retry count 3 is answered by the next question
C18_Divergence ==
    /\ last.stage = "danger_breathing" /\ last.retryCount = maxRetries
    /\ last.input = "yes"
    /\ last.newStage = "danger_collapse" /\ ~last.isEscalation
    /\ session.state["troubleBreathing"] = Undefined

\* a yes to severe pain with a stored severity of 3: the dialogue goes on
C18_SeverePainBelow8 ==
    /\ last.stage = "danger_severe_pain" /\ last.input = "yes" /\ last.retryCount = 0
    /\ session.state["severity"] = Num(3)
    /\ session.state["severePain"] = Bool(TRUE)
    /\ last.newStage = "danger_bleeding"
\* C19: in the red_flags stage an input without emergency keyword, given to
\* the question that is open, escalates exactly when it parses as yes and the
\* question's field is thunderclap, nonBlanchingRash, vomitingBlood,
\* neurologicalSymptoms, coughingBlood or bloodyStools, whatever the stored
\* severity; every other parsed answer is recorded under the field and the
\* loop goes on: to the next open question, or out of the stage when none is
\* left.
C19_CriticalRedFlags ==
    [][(/\ session.stage = "red_flags"
        /\ ~checkEmergencySigns(last'.input)
        /\ FirstUnanswered(session.state).field # "") =>
         LET field == FirstUnanswered(session.state).field
             answer == parseYesNo(last'.input)
             critical == /\ answer = Bool(TRUE)
                         /\ field \in {"thunderclap", "nonBlanchingRash", "vomitingBlood",
                                       "neurologicalSymptoms", "coughingBlood",
                                       "bloodyStools"}
         IN /\ last'.isEscalation <=> critical
            /\ critical => session'.stage = "escalated" /\ last'.isComplete
            /\ (answer # Null /\ ~critical)
                  => /\ session'.state[field] = answer
                     /\ session'.stage = "red_flags"
                          <=> FirstUnanswered(session'.state).field # ""
                     /\ session'.stage \in {"red_flags", "rag_followup", "context_conditions"}]_vars

\* the turn on which the code parts from C19: a yes to the question about
\* coughing blood at stored retry count 3 is answered by the first context
\* question
C19_Divergence ==
    /\ last.stage = "red_flags" /\ last.retryCount = maxRetries
    /\ last.input = "yes"
    /\ FirstUnanswered(session.state).field = "coughingBlood"
    /\ last.newStage = "context_conditions" /\ ~last.isEscalation

\* a yes to the wheezing question, which is not critical, at severity 9: the
\* answer is recorded and the next question asked
C19_NotCritical ==
    /\ last.stage = "red_flags" /\ last.input = "yes" /\ last.retryCount = 0
    /\ session.state["wheezing"] = Bool(TRUE)
    /\ session.state["severity"] = Num(9)
    /\ session.state["coughingBlood"] = Undefined
    /\ session.stage = "red_flags"

\* a yes to the question about coughing blood at severity 3: escalated
C19_Critical ==
    /\ last.stage = "red_flags" /\ last.input = "yes" /\ last.retryCount = 0
    /\ session.state["coughingBlood"] = Bool(TRUE)
    /\ session.state["severity"] = Num(3)
    /\ session.stage = "escalated"
\* C20: a no at danger_confusion, in an input without emergency keyword, takes
\* the dialogue to red_flags, or through an empty red-flag loop to
\* rag_followup; and whichever turn brings the session to context_conditions
\* from another stage either started in rag_followup or was taken into
\* rag_followup by the state machine, the handler finding no follow-up
\* question to ask.
C20_RedFlagsThenFollowUp ==
    [][\A processed \in {processUserMessage(last'.input, session.state, session.stage,
                                            session.retryCount, Throw)} :
          /\ (/\ session.stage = "danger_confusion"
              /\ ~checkEmergencySigns(last'.input)
              /\ parseYesNo(last'.input) = Bool(FALSE))
                => processed.newStage \in {"red_flags", "rag_followup"}
          /\ (session'.stage = "context_conditions" /\ session.stage # "context_conditions")
                => \/ session.stage = "rag_followup"
                   \/ processed.newStage = "rag_followup"]_vars

\* a first no at danger_confusion, the complaint not being one with red-flag
\* questions, is followed by the question about existing conditions
C20_Divergence ==
    /\ last.stage = "danger_confusion" /\ last.input = "no" /\ last.retryCount = 0
    /\ getNextQuestion(session.state, "red_flags").question = ""
    /\ last.newStage = "context_conditions"
    /\ session.stage = "context_conditions"
    /\ session.state["ragQuestionsAsked"] = Undefined

\* with a complaint that has red-flag questions the no leads to the first of
\* them
C20_IntoRedFlags ==
    /\ last.stage = "danger_confusion" /\ last.input = "no"
    /\ last.newStage = "red_flags"
    /\ FirstUnanswered(session.state).field # ""

\* the last red-flag answer leads to the follow-up question
C20_IntoFollowUp ==
    /\ last.stage = "red_flags" /\ last.input = "no"
    /\ last.newStage = "rag_followup"
    /\ session.stage = "rag_followup"

\* the number of follow-up answers stored in a chat state
RagCount(state) == Val(Or(state["ragQuestionsAsked"], Num(0)))

\* C21: the stored ragQuestionsAsked never exceeds 3 and a turn raises it by
\* one at most; at rag_followup an input without emergency keyword given as
\* the third answer takes the session to context_conditions; and a turn that
\* the state machine leaves in rag_followup without a response either stays
\* there with a follow-up question that generateRAGQuestion can return for
\* the new state, or, no question being returned, is stored as
\* context_conditions with the fixed question about existing conditions.
C21_BoundedFollowUp ==
    [][/\ RagCount(session'.state) <= 3
       /\ RagCount(session'.state) <= RagCount(session.state) + 1
       /\ session.stage = "rag_followup"
             => RagCount(session.state) < 3
       /\ (/\ session.stage = "rag_followup"
           /\ ~checkEmergencySigns(last'.input)
           /\ RagCount(session.state) = 2)
             => /\ session'.stage = "context_conditions"
                /\ RagCount(session'.state) = 3
       /\ session.stage \in {"red_flags", "rag_followup"} =>
             \A processed \in {processUserMessage(last'.input, session.state, session.stage,
                                                   session.retryCount, Throw)} :
                (processed.newStage = "rag_followup" /\ processed.response = "")
                   => \/ /\ session'.stage = "rag_followup"
                         /\ last'.response # ""
                         /\ \E ragContext \in RagContexts, gen \in GenOutcomes :
                               \E q \in {generateRAGQuestion(processed.newState,
                                                              ragContext, gen)} :
                                  Truthy(q) /\ last'.response = Val(q)
                      \/ /\ session'.stage = "context_conditions"
                         /\ last'.response
                               = getNextQuestion(session'.state, "context_conditions").question
                         /\ last'.response # ""
                         /\ \E ragContext \in RagContexts, gen \in GenOutcomes :
                               ~Truthy(generateRAGQuestion(processed.newState,
                                                           ragContext, gen))]_vars

\* the third follow-up answer has been given
C21_Witness ==
    /\ last.stage = "rag_followup" /\ last.input = "no"
    /\ last.newStage = "context_conditions"
    /\ RagCount(session.state) = 3
    /\ session.state["ragAnswer2"] = Str("no")

\* the last red-flag answer with no guidance matched: the follow-up loop is
\* skipped
C21_NoQuestion ==
    /\ last.stage = "red_flags"
    /\ last.newStage = "context_conditions"
    /\ last.retryCount < maxRetries
    /\ RagCount(session.state) = 0
    /\ session.state["ragQuestionsAsked"] = Num(0)

\* C22: at summary, whatever the stored retry count, an input without
\* emergency keyword that parses as yes completes the session without
\* escalation; one that parses as no stores stage opening, the empty state
\* and retry count 0; one that does not parse leaves stage and state as they
\* are and stores the retry count raised by one.
C22_Summary ==
    [][(session.stage = "summary" /\ ~checkEmergencySigns(last'.input)) =>
          \A confirmed \in {parseYesNo(last'.input)} :
             /\ confirmed = Bool(TRUE)
                   => /\ session'.stage = "complete"
                      /\ last'.isComplete /\ ~last'.isEscalation
                      /\ session'.status = "completed"
             /\ confirmed = Bool(FALSE)
                   => /\ session'.stage = "opening"
                      /\ session'.state = EmptyState
                      /\ session'.retryCount = 0
                      /\ ~last'.isComplete /\ ~last'.isEscalation
             /\ confirmed = Null
                   => /\ session'.stage = "summary"
                      /\ session'.state = session.state
                      /\ session'.retryCount = session.retryCount + 1
                      /\ ~last'.isComplete /\ ~last'.isEscalation]_vars

\* the summary confirmed
C22_Witness ==
    /\ last.stage = "summary" /\ last.input = "yes"
    /\ session.stage = "complete" /\ last.isComplete /\ ~last.isEscalation

\* the summary rejected, the answers being dropped
C22_Rejected ==
    /\ last.stage = "summary" /\ last.input = "no"
    /\ session.stage = "opening" /\ session.state = EmptyState

\* the summary answered with something else
C22_Retried ==
    /\ last.stage = "summary" /\ last.input = "x"
    /\ session.stage = "summary" /\ session.retryCount = last.retryCount + 1

\* the interview's stages in the order of the Stage type, up to summary
FixedSequence ==
    <<"opening", "localisation", "time_start", "time_trend", "severity",
      "danger_breathing", "danger_collapse", "danger_severe_pain",
      "danger_bleeding", "danger_confusion", "red_flags", "rag_followup",
      "context_conditions", "context_medications", "context_surgery",
      "functional_eat", "functional_move", "functional_activities",
      "collect_name", "summary">>

\* C23: a turn on which the retry ceiling returns, its input holding no
\* emergency keyword, stores the stage that follows the current one in
\* FixedSequence and leaves the state as it is.
C23_ForcedSuccessor ==
    [][(/\ ForcesAdvance(session.stage, session.retryCount)
        /\ ~checkEmergencySigns(last'.input))
          => /\ indexOf(FixedSequence, session.stage) \in 0..(Len(FixedSequence) - 2)
             /\ session'.stage = FixedSequence[indexOf(FixedSequence, session.stage) + 2]
             /\ session'.state = session.state]_vars

\* the ceiling at the last red-flag question: the follow-up loop is skipped
C23_Divergence ==
    /\ last.stage = "red_flags" /\ last.retryCount = maxRetries
    /\ last.input = "x"
    /\ last.newStage = "context_conditions"
    /\ session.stage = "context_conditions"
    /\ session.state["ragQuestionsAsked"] = Undefined

\* the ceiling at collect_name: the interview starts over
C23_BackToOpening ==
    /\ last.stage = "collect_name" /\ last.retryCount = maxRetries
    /\ last.newStage = "opening"

\* the stages whose failed extraction has a category of fallback prompts
PromptedStages ==
    {"opening", "localisation", "time_start", "time_trend", "severity",
     "danger_breathing", "danger_collapse", "danger_severe_pain", "danger_bleeding",
     "danger_confusion", "red_flags"}

\* C32: a turn that fails extraction at a stage with fallback prompts, the
\* stored retry count being r, has as its response with the text generation
\* unavailable the prompt of the stage's category for tier r.
C32_FallbackPrompts ==
    [][(/\ last'.stage \in PromptedStages
        /\ last'.newRetryCount = last'.retryCount + 1)
          => \A failed \in {processUserMessage(last'.input, session.state, session.stage,
                                               session.retryCount, Throw)} :
                /\ failed.newRetryCount = session.retryCount + 1
                /\ failed.response = getFallbackPrompt(session.stage, session.retryCount)]_vars

\* an unparseable answer to the severity question with the text generation
\* unavailable: the response is the severity question again, not the first
\* fallback prompt of the category
C32_Divergence ==
    /\ last.stage = "severity" /\ last.input = "x"
    /\ last.retryCount = 0 /\ last.newRetryCount = 1
    /\ last.response = getNextQuestion(session.state, "severity").question
    /\ last.response # getFallbackPrompt("severity", 0)
    /\ session.stage = "severity" /\ session.retryCount = 1

\* the opening is the stage that answers with its prompts: the third failure
\* gets the final one
C32_Opening ==
    /\ last.stage = "opening" /\ last.input = "x"
    /\ last.retryCount = 2 /\ last.newRetryCount = 3
    /\ last.response = FALLBACK_PROMPTS("opening").final

\* C36: a turn that leaves the session active has a response that is not
\* empty.
C36_NeverSilent ==
    (turns > 0 /\ session.status = "active") => last.response # ""

\* the fourth unparseable answer to the confusion check of a complaint that
\* has no red-flag questions: the ceiling stores red_flags, whose question is
\* the empty string, and the turn has no response
C36_Divergence ==
    /\ last.stage = "danger_confusion" /\ last.retryCount = 3
    /\ last.newStage = "red_flags" /\ session.stage = "red_flags"
    /\ session.status = "active"
    /\ session.state["complaint"] = Undefined
    /\ last.response = ""
    /\ getNextQuestion(session.state, "red_flags").question = ""

\* C37: the retry count a turn returns is 0 or one more than the stored one;
\* when it is one more, the stage and the state the turn stores are those it
\* found; when the stage or any field differs, it is 0.
C37_RetryCount ==
    [][/\ last'.newRetryCount \in {0, session.retryCount + 1}
       /\ last'.retryCount = session.retryCount
       /\ session'.retryCount = last'.newRetryCount
       /\ last'.newRetryCount = session.retryCount + 1
             => /\ session'.stage = session.stage
                /\ session'.state = session.state
                /\ ~last'.isEscalation /\ ~last'.isComplete
       /\ (session'.stage # session.stage \/ session'.state # session.state)
             => last'.newRetryCount = 0]_vars

\* a second failure at the severity question, the number being out of range
C37_Witness ==
    /\ last.stage = "severity" /\ last.input = "12"
    /\ last.retryCount = 1 /\ last.newRetryCount = 2
    /\ session.stage = "severity" /\ session.retryCount = 2
    /\ session.state["severity"] = Undefined

\* an answer accepted after two failures: the count is back to 0
C37_Reset ==
    /\ last.stage = "severity" /\ last.input = "9"
    /\ last.retryCount = 2 /\ last.newRetryCount = 0
    /\ session.stage = "danger_breathing" /\ session.retryCount = 0
    /\ session.state["severity"] = Num(9)

\* a follow-up answer: the stage stays, a field is set, the count is 0
C37_SameStage ==
    /\ last.stage = "rag_followup" /\ session.stage = "rag_followup"
    /\ session.state["ragQuestionsAsked"] = Num(1)
    /\ last.newRetryCount = 0 /\ session.retryCount = 0

\* C40: a session stored as completed or escalated is linked to a submission
\* that exists.
C40_TerminalHasSubmission ==
    session.status \in {"completed", "escalated"} =>
        /\ session.submissionId # 0
        /\ session.submissionId \in DOMAIN submissions

\* the summary confirmed while the guidance retrieval of generateHandoff
\* fails: the row is stored as completed, no submission is made and no
\* handoff is stored
C40_Divergence ==
    /\ last.stage = "summary" /\ last.input = "yes" /\ last.isComplete
    /\ session.status = "completed" /\ session.stage = "complete"
    /\ session.submissionId = 0
    /\ session.handoffJson = Undefined
    /\ submissions = << >>

\* the same on an escalation: the emergency is stored, nothing reaches the
\* staff's list
C40_EscalatedUnsubmitted ==
    /\ last.isEscalation
    /\ session.status = "escalated"
    /\ session.submissionId = 0
    /\ submissions = << >>

\* the completing turn whose calls answer: the session is linked to its
\* submission
C40_Submitted ==
    /\ last.stage = "summary" /\ last.isComplete
    /\ session.status = "completed"
    /\ session.submissionId = 1 /\ Len(submissions) = 1
    /\ session.handoffJson # Undefined

\* C9: the risk band stored on the submission of a finished session is the
\* handoff's severity.rules_engine_category, compared without regard to case.
C9_NoDrift ==
    session.submissionId # 0 =>
        ToUpperCase(submissions[session.submissionId].riskBand)
          = ToUpperCase(session.handoffJson[2].severity.rules_engine_category)

\* a session finished by the patient's confirmation, where band and category agree
C9_NormalCompletion ==
    /\ session.status = "completed" /\ session.submissionId # 0
    /\ submissions[session.submissionId].riskBand = "Green"
    /\ session.handoffJson[2].severity.rules_engine_category = "GREEN"

\* a session finished by escalation, where they differ
C9_Divergence ==
    /\ session.status = "escalated" /\ session.submissionId # 0
    /\ submissions[session.submissionId].riskBand = "Red"
    /\ session.handoffJson[2].severity.rules_engine_category = "GREEN"

-----------------------------------------------------------------------------
(* The rules engine on its own: one call of evaluateTriage *)

\* Bound: the answers of a record that are true
MaxTrueAnswers == 2

TriageFlagFields ==
    {"confusion", "severeBleeding", "shortnessOfBreath", "radiatingPain",
     "cardiacHistory", "cyanosis", "speakingDifficulty", "vomitingBlood",
     "rigidAbdomen", "pregnancy", "bleeding", "thunderclap", "neckStiffness",
     "visualDisturbance"}

TriageComplaints ==
    {Str("chest pain"), Str("Chest Pain"), Str("chest pains"), Str("Headache"),
     Str("abdominal pain"), Str("shortness of breath"), Str("")}
TriageSeverities == {Undefined, Num(5), Num(6), Num(7), Num(9)}
TriageAges == {Num(0), Num(55), Num(75), Num(76)}

\* a TriageAnswers record of the form POST /api/triage and the chat hand over
AnswersOf(complaint, severity, age, true) ==
    [f \in Fields |->
        CASE f = "complaint" -> complaint
          [] f = "severity" -> severity
          [] f = "age" -> age
          [] f = "sex" -> Str("female")
          [] f \in true -> Bool(TRUE)
          [] f \in TriageFlagFields -> Bool(FALSE)
          [] OTHER -> Undefined]

InitTriage ==
    /\ session = NewSession /\ submissions = << >> /\ last = NoTurn
    /\ turns = 0 /\ failures = 0
    /\ call \in {[fn |-> "evaluateTriage", answers |-> AnswersOf(c, s, a, t)] :
                   c \in TriageComplaints, s \in TriageSeverities, a \in TriageAges,
                   t \in {x \in SUBSET TriageFlagFields : Cardinality(x) <= MaxTrueAnswers}}
    /\ ret = NoCall

CallEvaluateTriage ==
    /\ call.fn = "evaluateTriage" /\ ret = NoCall
    /\ ret' = [fn |-> "evaluateTriage", result |-> evaluateTriage(call.answers)]
    /\ UNCHANGED <<session, submissions, last, turns, failures, call>>

SpecTriage == InitTriage /\ [][CallEvaluateTriage]_vars

\* the conditions of the global flags, read from the answers
GloballyFlagged(answers) ==
    \/ answers["confusion"] = Bool(TRUE)
    \/ answers["severeBleeding"] = Bool(TRUE)
    \/ (IsNum(answers["severity"]) /\ Val(answers["severity"]) >= 9)

\* C6: the band is Red exactly when evaluateTriage collected at least one red
\* flag, whatever the severity and the age; a global flag condition in the
\* answers is enough.
C6_FlagsDominate ==
    ret.fn = "evaluateTriage" =>
        /\ Len(ret.result.redFlags) > 0 <=> ret.result.riskBand = "Red"
        /\ GloballyFlagged(call.answers) => ret.result.riskBand = "Red"

\* a flagged record below both thresholds
C6_Witness ==
    /\ ret.fn = "evaluateTriage"
    /\ call.answers["severity"] = Num(5) /\ call.answers["age"] = Num(0)
    /\ Len(ret.result.redFlags) = 1
    /\ ret.result.riskBand = "Red"

\* C7: with no red flag collected, the band is Amber if and only if
\* severity >= 6 or age > 75, and Green otherwise.
C7_AmberThresholds ==
    (ret.fn = "evaluateTriage" /\ Len(ret.result.redFlags) = 0) =>
        ret.result.riskBand =
            IF \/ (IsNum(call.answers["severity"]) /\ Val(call.answers["severity"]) >= 6)
               \/ (IsNum(call.answers["age"]) /\ Val(call.answers["age"]) > 75)
            THEN "Amber" ELSE "Green"

\* no flag, severity below 6, age on the threshold: Green
C7_Witness ==
    /\ ret.fn = "evaluateTriage"
    /\ Len(ret.result.redFlags) = 0
    /\ call.answers["severity"] = Num(5) /\ call.answers["age"] = Num(75)
    /\ ret.result.riskBand = "Green"

\* no flag, age alone above the threshold: Amber
C7_AmberByAge ==
    /\ ret.fn = "evaluateTriage"
    /\ Len(ret.result.redFlags) = 0
    /\ call.answers["severity"] = Undefined /\ call.answers["age"] = Num(76)
    /\ ret.result.riskBand = "Amber"

\* the flags of the chest-pain rules
ChestPainFlags ==
    {"Chest pain + SOB", "Radiating pain", "Age > 50 with moderate chest pain",
     "History of heart disease"}

\* C16: chest pain at age 55 with severity 7 and shortness of breath is Red,
\* with the flags "Chest pain + SOB" and "Age > 50 with moderate chest pain";
\* and a chest-pain flag is collected only when the complaint in lower case
\* is exactly "chest pain".
C16_ChestPainRules ==
    ret.fn = "evaluateTriage" =>
        /\ (/\ call.answers["complaint"] = Str("chest pain")
            /\ call.answers["age"] = Num(55)
            /\ call.answers["severity"] = Num(7)
            /\ call.answers["shortnessOfBreath"] = Bool(TRUE))
              => /\ ret.result.riskBand = "Red"
                 /\ {"Chest pain + SOB", "Age > 50 with moderate chest pain"}
                      \subseteq Range(ret.result.redFlags)
        /\ Range(ret.result.redFlags) \cap ChestPainFlags # {}
              => ToLowerCase(Val(call.answers["complaint"])) = "chest pain"

\* the scenario, with exactly its two flags
C16_Witness ==
    /\ ret.fn = "evaluateTriage"
    /\ call.answers["complaint"] = Str("chest pain")
    /\ call.answers["age"] = Num(55) /\ call.answers["severity"] = Num(7)
    /\ call.answers["shortnessOfBreath"] = Bool(TRUE)
    /\ ret.result.riskBand = "Red"
    /\ ret.result.redFlags = <<"Chest pain + SOB", "Age > 50 with moderate chest pain">>

\* the same answers under a complaint that is not exactly chest pain: no flag
C16_OtherComplaint ==
    /\ ret.fn = "evaluateTriage"
    /\ call.answers["complaint"] = Str("chest pains")
    /\ call.answers["age"] = Num(55) /\ call.answers["severity"] = Num(7)
    /\ call.answers["shortnessOfBreath"] = Bool(TRUE)
    /\ ret.result.redFlags = << >>
    /\ ret.result.riskBand = "Amber"

-----------------------------------------------------------------------------
(* The red-flag evaluator on its own: one call of evaluateRedFlags *)

\* Bound: the facts of a record that are known
MaxKnownFacts == 3

\* the facts the rules read, each with a value that meets its criterion and
\* one that does not
RuleFacts ==
    {"chest_pain", "shortness_of_breath", "severity_score", "face_droop",
     "arm_weakness", "speech_difficulty", "fever", "neck_stiffness",
     "non_blanching_rash", "age_years", "thunderclap"}

Meets(key) ==
    CASE key = "severity_score" -> Num(9)
      [] key = "age_years" -> Num(1)
      [] OTHER -> Bool(TRUE)

Fails(key) ==
    CASE key = "severity_score" -> Num(3)
      [] key = "age_years" -> Num(30)
      [] OTHER -> Bool(FALSE)

\* a value of another type than the criterion's: the number as a string, 1
\* for true
Mistyped(key) ==
    CASE key = "severity_score" -> Str("9")
      [] key = "age_years" -> Str("1")
      [] OTHER -> Num(1)

\* the fact record in which the keys of met meet their criteria, the keys of
\* unmet do not, the keys of odd hold a value of another type, and no other
\* fact is known
FactsOf(met, unmet, odd) ==
    [k \in AllKeys |-> IF k \in met THEN Meets(k)
                       ELSE IF k \in unmet THEN Fails(k)
                       ELSE IF k \in odd THEN Mistyped(k) ELSE Undefined]

InitRedFlags ==
    /\ session = NewSession /\ submissions = << >> /\ last = NoTurn
    /\ turns = 0 /\ failures = 0
    /\ call \in {[fn |-> "evaluateRedFlags",
                   facts |-> FactsOf({k \in DOMAIN kind : kind[k] = "met"},
                                     {k \in DOMAIN kind : kind[k] = "unmet"},
                                     {k \in DOMAIN kind : kind[k] = "odd"})] :
                    kind \in UNION {[known -> {"met", "unmet", "odd"}] :
                                      known \in {x \in SUBSET RuleFacts :
                                                   Cardinality(x) <= MaxKnownFacts}}}
    /\ ret = NoCall

CallEvaluateRedFlags ==
    /\ call.fn = "evaluateRedFlags" /\ ret = NoCall
    /\ ret' = [fn |-> "evaluateRedFlags", result |-> evaluateRedFlags(call.facts)]
    /\ UNCHANGED <<session, submissions, last, turns, failures, call>>

SpecRedFlags == InitRedFlags /\ [][CallEvaluateRedFlags]_vars

\* the number of the three lists a rule is in
ListsHolding(rule, result) ==
    Cardinality({j \in DOMAIN result.triggered : result.triggered[j].code = rule.code})
      + Cardinality({j \in DOMAIN result.notTriggered : result.notTriggered[j] = rule.label})
      + Cardinality({j \in DOMAIN result.notAssessed : result.notAssessed[j] = rule.label})

\* C8: for any fact record, every rule of the table is in exactly one of
\* triggered, notTriggered and notAssessed, and the three lists hold nothing else.
C8_Trichotomy ==
    ret.fn = "evaluateRedFlags" =>
        /\ \A i \in DOMAIN redFlagRules : ListsHolding(redFlagRules[i], ret.result) = 1
        /\ Len(ret.result.triggered) + Len(ret.result.notTriggered)
             + Len(ret.result.notAssessed) = Len(redFlagRules)

\* a record for which each of the three lists holds a rule
C8_Witness ==
    /\ ret.fn = "evaluateRedFlags"
    /\ Len(ret.result.triggered) > 0
    /\ Len(ret.result.notTriggered) > 0
    /\ Len(ret.result.notAssessed) > 0

\* whether the label is in the list
Lists(list, label) == \E j \in DOMAIN list : list[j] = label

\* the rules of the table that the call did not put in triggered
NotTriggeredRules ==
    {i \in DOMAIN redFlagRules :
        ~\E j \in DOMAIN ret.result.triggered :
              ret.result.triggered[j].code = redFlagRules[i].code}

\* the fact keys a rule's criteria name
ReferencedKeys(rule) ==
    {key \in FactKeys :
        \/ /\ rule.criteria_all # Undefined
           /\ \E j \in DOMAIN rule.criteria_all[2] : rule.criteria_all[2][j].fact = key
        \/ /\ rule.criteria_any # Undefined
           /\ \E j \in DOMAIN rule.criteria_any[2] : rule.criteria_any[2][j].fact = key}

\* C28: a rule the call did not put in triggered is in notAssessed exactly
\* when the fact record holds none of the keys its criteria_all and
\* criteria_any name, and in notTriggered exactly when it holds at least one.
C28_AssessedByKeys ==
    ret.fn = "evaluateRedFlags" =>
        \A i \in NotTriggeredRules :
            \A known \in {{key \in ReferencedKeys(redFlagRules[i]) :
                              call.facts[key] # Undefined}} :
               /\ Lists(ret.result.notAssessed, redFlagRules[i].label) <=> known = {}
               /\ Lists(ret.result.notTriggered, redFlagRules[i].label) <=> known # {}

\* chest pain denied and nothing known about the breathing: the rule on both
\* is assessed and not triggered, the others are not assessed
C28_Witness ==
    /\ ret.fn = "evaluateRedFlags"
    /\ call.facts = FactsOf({}, {"chest_pain"}, {})
    /\ ret.result.notTriggered = <<redFlagRules[1].label>>
    /\ Len(ret.result.notAssessed) = Len(redFlagRules) - 1

\* the criteria of the table are written so that, of the values a record of
\* InitRedFlags can hold for a key, Meets(key) alone satisfies them
Satisfied(criterion) == call.facts[criterion.fact] = Meets(criterion.fact)

\* C29: the call returns, and a rule is in triggered exactly when it has a
\* criteria_all every criterion of which is satisfied or a criteria_any one
\* criterion of which is satisfied; a gte or lte criterion on a key that is
\* absent or holds a string, and an eq criterion on a key that holds a value
\* of another type, are not satisfied.
C29_RuleTriggers ==
    ret.fn = "evaluateRedFlags" =>
        \A i \in DOMAIN redFlagRules :
            \A rule \in {redFlagRules[i]} :
               (i \notin NotTriggeredRules)
                  <=> \/ /\ rule.criteria_all # Undefined
                         /\ \A j \in DOMAIN rule.criteria_all[2] :
                               Satisfied(rule.criteria_all[2][j])
                      \/ /\ rule.criteria_any # Undefined
                         /\ \E j \in DOMAIN rule.criteria_any[2] :
                               Satisfied(rule.criteria_any[2][j])

\* fever without a stiff neck but with a rash that does not fade: criteria_all
\* fails and criteria_any triggers the rule
C29_Witness ==
    /\ ret.fn = "evaluateRedFlags"
    /\ call.facts = FactsOf({"fever", "non_blanching_rash"}, {"neck_stiffness"}, {})
    /\ \E j \in DOMAIN ret.result.triggered : ret.result.triggered[j].code = "RF_MENINGISM"

\* the severity as the string "9", the age as the string "1" and the fever as
\* the number 1: no rule triggers
C29_Mistyped ==
    /\ ret.fn = "evaluateRedFlags"
    /\ call.facts = FactsOf({}, {}, {"severity_score", "age_years", "fever"})
    /\ ret.result.triggered = << >>
    /\ Lists(ret.result.notTriggered, "Severe pain (9-10/10)")

\* the fever as the number 1 next to a true age criterion: the rule on both
\* does not trigger
C29_StrictEq ==
    /\ ret.fn = "evaluateRedFlags"
    /\ call.facts = FactsOf({"age_years"}, {}, {"fever"})
    /\ ret.result.triggered = << >>

-----------------------------------------------------------------------------
(* The handoff assembler on its own: generateHandoff called twice on the same *)
(* state and lists, the generator answering each call in its own way         *)

HandoffStates ==
    {EmptyState,
     Set(Set(EmptyState, "complaint", Str("chest pain")), "severity", Num(6)),
     Set(Set(Set(EmptyState, "complaint", Str("headache")), "severity", Num(4)),
         "neckStiffness", Bool(TRUE)),
     Set(Set(EmptyState, "complaint", Str("Chest pain")), "troubleBreathing", Bool(TRUE))}

\* results of the red-flag evaluator handed to the assembler
HandoffLists ==
    {evaluateRedFlags(FactsOf({}, {}, {})),
     evaluateRedFlags(FactsOf({"thunderclap"}, {"fever"}, {})),
     evaluateRedFlags(FactsOf({"severity_score", "face_droop"}, {"chest_pain"}, {}))}

\* what the generation call can come back with: a failure, content that is
\* not JSON, JSON that is no object, objects short of severity or red_flags,
\* and complete objects that state a category and red flags of their own
GeneratedHandoffs ==
    {Throw, Malformed, Null,
     <<"object", [summary_for_reception |-> "Review today."]>>,
     <<"object", [severity |-> Str("RED"),
                  red_flags |-> <<"object", [triggered |-> << >>]>>]>>,
     <<"object", [severity |-> <<"object", [ai_suggested_category |-> "RED"]>>,
                  red_flags |-> <<"object", [notes |-> "none"]>>,
                  summary_for_reception |-> "Review today."]>>,
     <<"object", [severity |-> <<"object", [rules_engine_category |-> "GREEN",
                                            ai_suggested_category |-> "AMBER",
                                            ai_confidence |-> "HIGH",
                                            rationale |-> "Mild symptoms."]>>,
                  red_flags |-> <<"object", [triggered |-> <<[flag |-> "Sepsis",
                                                              evidence |-> "None given"]>>,
                                             not_triggered |-> << >>,
                                             not_assessed |-> <<"Everything">>]>>,
                  summary_for_reception |-> "No concerns."]>>}

InitHandoff ==
    /\ session = NewSession /\ submissions = << >> /\ last = NoTurn
    /\ turns = 0 /\ failures = 0
    /\ call \in {[fn |-> "generateHandoff", state |-> st, lists |-> ls, generated |-> <<g1, g2>>] :
                   st \in HandoffStates, ls \in HandoffLists,
                   g1 \in GeneratedHandoffs, g2 \in GeneratedHandoffs}
    /\ ret = NoCall

CallGenerateHandoff ==
    /\ call.fn = "generateHandoff" /\ ret = NoCall
    /\ ret' = [fn |-> "generateHandoff",
               results |-> [i \in 1..2 |->
                              generateHandoff(call.state, call.lists.triggered,
                                              call.lists.notTriggered,
                                              call.lists.notAssessed, call.generated[i])]]
    /\ UNCHANGED <<session, submissions, last, turns, failures, call>>

SpecHandoff == InitHandoff /\ [][CallGenerateHandoff]_vars

\* C10: on every call for the same state and lists, whatever the generator
\* returned, the handoff's severity.rules_engine_category is the rules
\* engine's band for the state and its red_flags are the lists given; so two
\* calls agree on both.
C10_DeterministicCore ==
    ret.fn = "generateHandoff" =>
        /\ \A i \in 1..2 :
              /\ ret.results[i].severity.rules_engine_category
                   = ToUpperCase(evaluateTriage(buildAnswersFromState(call.state)).riskBand)
              /\ ret.results[i].red_flags.triggered = FormatTriggered(call.lists.triggered)
              /\ ret.results[i].red_flags.not_triggered = call.lists.notTriggered
              /\ ret.results[i].red_flags.not_assessed = call.lists.notAssessed
        /\ ret.results[1].severity.rules_engine_category
             = ret.results[2].severity.rules_engine_category
        /\ ret.results[1].red_flags.triggered = ret.results[2].red_flags.triggered
        /\ ret.results[1].red_flags.not_triggered = ret.results[2].red_flags.not_triggered
        /\ ret.results[1].red_flags.not_assessed = ret.results[2].red_flags.not_assessed

\* a Red state with a triggered rule: one call answered by a complete object
\* that says GREEN and names flags of its own, the other by a failure
C10_Witness ==
    /\ ret.fn = "generateHandoff"
    /\ IsObject(call.generated[1])
    /\ IsObject(Prop(call.generated[1][2], "severity"))
    /\ Prop(call.generated[1][2].severity[2], "rules_engine_category") = "GREEN"
    /\ call.generated[2] = Throw
    /\ Len(call.lists.triggered) = 1
    /\ ret.results[1].severity.rules_engine_category = "RED"
    /\ ret.results[1].summary_for_reception = "No concerns."
    /\ ret.results[2].severity.ai_confidence = "LOW"

\* what the generator gave cannot be used: the call failed, the content is not
\* JSON, or the parsed value has no severity or no red_flags object to assign to
Unusable(generated) ==
    \/ generated = Throw
    \/ generated = Malformed
    \/ ~IsObject(generated)
    \/ ~IsObject(Prop(generated[2], "severity"))
    \/ ~IsObject(Prop(generated[2], "red_flags"))

HandoffKeys ==
    {"presenting_complaint", "key_positives", "key_negatives", "red_flags", "severity",
     "differentials", "consultation_focus", "summary_for_reception"}

-----------------------------------------------------------------------------
(* The fact extractor on its own: one call of extractFactsFromMessages *)

\* Bounds: the facts and the negations of one extraction
MaxFacts == 2
MaxNegations == 1

Negation(key, confidence) == [key |-> key, confidence |-> confidence]

ExtractedFacts ==
    {Fact("severity_score", Num(8), Num(90)),
     Fact("severity_score", Num(8), Num(69)),
     Fact("fainting", Bool(TRUE), Num(69)),
     Fact("fainting", Bool(TRUE), Num(70)),
     Fact("allergies", Str("penicillin"), Num(49)),
     Fact("allergies", Str("penicillin"), Num(50)),
     Fact("collapse", Bool(TRUE), Num(90)),
     Fact("onset", Str("yesterday"), Undefined)}

ExtractedNegations ==
    {Negation("fainting", Num(69)), Negation("vomiting", Num(50)),
     Negation("collapse", Num(90))}

SeqsUpTo(pool, n) == UNION {[1..k -> pool] : k \in 0..n}

Extractions ==
    {Throw, Malformed}
      \cup {Extraction(f, n) : f \in SeqsUpTo(ExtractedFacts, MaxFacts),
                               n \in SeqsUpTo(ExtractedNegations, MaxNegations)}

ExtractionStates ==
    {EmptyState,
     Set(Set(Set(EmptyState, "complaint", Str("headache")), "severity", Num(3)),
         "collapse", Bool(FALSE))}

Conversations ==
    {<<[role |-> "assistant", content |-> "What brings you here?"]>>,
     <<[role |-> "user", content |-> "The pain is 8 out of 10"]>>,
     <<[role |-> "assistant", content |-> "How bad is it?"],
       [role |-> "user", content |-> "It hurts"]>>}

InitFacts ==
    /\ session = NewSession /\ submissions = << >> /\ last = NoTurn
    /\ turns = 0 /\ failures = 0
    /\ call \in {[fn |-> "extractFactsFromMessages", messages |-> m,
                  existingFacts |-> st, llm |-> x] :
                   m \in Conversations, st \in ExtractionStates, x \in Extractions}
    /\ ret = NoCall

CallExtractFacts ==
    /\ call.fn = "extractFactsFromMessages" /\ ret = NoCall
    /\ ret' = [fn |-> "extractFactsFromMessages",
               result |-> extractFactsFromMessages(call.messages, call.existingFacts,
                                                   1, call.llm)]
    /\ UNCHANGED <<session, submissions, last, turns, failures, call>>

SpecFacts == InitFacts /\ [][CallExtractFacts]_vars

\* the extraction call was made and answered with an object
Extracted ==
    /\ ret.fn = "extractFactsFromMessages"
    /\ Trim(PatientMessages(call.messages)) # ""
    /\ IsObject(call.llm)

\* C2: a key the deterministic projection holds and the extraction states with
\* another value keeps the deterministic value in the returned record, and
\* exactly one divergence event is emitted for it.
C2_DeterministicAuthority ==
    Extracted =>
        \A key \in FactKeys :
            LET stateValue == deterministicFactsFromState(call.existingFacts)[key]
                facts == call.llm[2].facts
                events == ret.result.divergences
            IN (/\ stateValue # Undefined
                /\ \E i \in DOMAIN facts : facts[i].key = key /\ facts[i].value # stateValue)
               => /\ ret.result.facts[key] = stateValue
                  /\ Cardinality({j \in DOMAIN events : events[j].key = key}) = 1

\* the call on which the code parts from C2: the state holds severity 3, the
\* extraction says 8 with confidence 90, the patient wrote "8", and the record
\* comes back with 8
C2_Divergence ==
    /\ Extracted
    /\ call.existingFacts["severity"] = Num(3)
    /\ call.llm[2].facts = <<Fact("severity_score", Num(8), Num(90))>>
    /\ ret.result.facts["severity_score"] = Num(8)
    /\ Len(ret.result.divergences) = 1

\* the confidence an extracted key needs
RequiredConfidence(key) == IF key \in CRITICAL_FACT_KEYS THEN 70 ELSE 50

BelowRequired(item) ==
    IsNum(item.confidence) /\ Val(item.confidence) < RequiredConfidence(item.key)

\* C3: a fact or negation extracted with a confidence below the threshold of
\* its key (70 for a critical key, 50 otherwise) does not appear in the
\* returned record, unless the key was already present from the chat state or
\* its deterministic projection: the key stays absent, or holds what another
\* extracted item of sufficient confidence put there.
C3_ConfidenceGate ==
    Extracted =>
        LET facts == call.llm[2].facts
            negations == call.llm[2].negations
            present == MergedFacts(call.existingFacts,
                                   deterministicFactsFromState(call.existingFacts))
            value(key) == ret.result.facts[key]
            accounted(key) ==
                \/ value(key) = Undefined
                \/ \E j \in DOMAIN facts :
                       /\ facts[j].key = key /\ ~BelowRequired(facts[j])
                       /\ facts[j].value = value(key)
                \/ \E j \in DOMAIN negations :
                       /\ negations[j].key = key /\ ~BelowRequired(negations[j])
                       /\ value(key) = Bool(FALSE)
        IN /\ \A i \in DOMAIN facts :
                 (BelowRequired(facts[i]) /\ present[facts[i].key] = Undefined)
                   => accounted(facts[i].key)
           /\ \A i \in DOMAIN negations :
                 (BelowRequired(negations[i]) /\ present[negations[i].key] = Undefined)
                   => accounted(negations[i].key)

\* a critical fact at 69 left out, next to a non-critical fact at 50 taken in
C3_Witness ==
    /\ Extracted
    /\ call.llm[2].facts = <<Fact("fainting", Bool(TRUE), Num(69)),
                             Fact("allergies", Str("penicillin"), Num(50))>>
    /\ call.llm[2].negations = << >>
    /\ ret.result.facts["fainting"] = Undefined
    /\ ret.result.facts["allergies"] = Str("penicillin")

-----------------------------------------------------------------------------
(* The chat endpoint with two requests of one session in flight.  The       *)
(* handler reads the session row, awaits processUserMessage and the         *)
(* follow-up step, writes the row, and on a completing turn awaits the      *)
(* handoff and creates the submission: each await is a point where the      *)
(* other request can run.                                                   *)

\* Bound: the requests received
MaxRequests == 2

Requests == {1, 2}

\* a conversation that runs from the opening to the summary
Script ==
    <<"my leg is sore", "leg", "today", "Worse", "it is 3", "no", "no", "no", "no", "no",
      "asthma", "asthma", " ", "yes", "yes", "Yes", "Al">>

ChatMessage(role, content) == [role |-> role, content |-> content]

\* the session row with its messages column, as POST /api/chat/start leaves
\* it: the opening question
StartedSession ==
    NewSession
      @@ [messages |-> <<ChatMessage("assistant",
                                     getNextQuestion(EmptyState, "opening").question)>>]

\* currentMessages after the two pushes of the handler: the user's message,
\* and the response when there is one
PushTurn(messages, message, response) ==
    IF response # ""
    THEN messages \o <<ChatMessage("user", message), ChatMessage("assistant", response)>>
    ELSE Append(messages, ChatMessage("user", message))

\* the session row after the first n messages of Script, each handled to its end
RECURSIVE SessionAfter(_)
SessionAfter(n) ==
    IF n = 0 THEN StartedSession
    ELSE CHOOSE row \in
           {[before EXCEPT !.messages = PushTurn(before.messages, Script[n], result.response),
                           !.stage = result.newStage, !.state = result.newState,
                           !.retryCount = result.newRetryCount] :
              <<before, result>> \in
                 {<<b, RagStep(processUserMessage(Script[n], b.state, b.stage,
                                                  b.retryCount, Throw), "", Throw)>> :
                    b \in {SessionAfter(n - 1)}}} : TRUE

NoResult == Result(EmptyState, "opening", "", FALSE, FALSE, 0)

\* a request slot before its first request
Idle == [pc |-> "idle", message |-> "", snapshot |-> StartedSession, result |-> NoResult]

\* the points of Script the two requests arrive at: the opening, the severity
\* question, the last danger check, the name and the summary
Arrivals == {0, 4, 9, 16, Len(Script)}

InitConcurrent ==
    /\ session \in {SessionAfter(n) : n \in Arrivals}
    /\ submissions = << >> /\ last = NoTurn
    /\ turns = 0 /\ failures = 0
    /\ call = [fn |-> "POST /api/chat/message", requests |-> [i \in Requests |-> Idle]]
    /\ ret = NoCall

\* the request is received: validation, getChatSession, the status test and
\* the copies of the row's fields
ReadSession(i, message) ==
    /\ call.fn = "POST /api/chat/message"
    /\ call.requests[i].pc \in {"idle", "responded", "failed"}
    /\ turns < MaxRequests
    /\ message # ""
    /\ session.status = "active"
    /\ call' = [call EXCEPT !.requests[i] =
                   [pc |-> "processing", message |-> message, snapshot |-> session,
                    result |-> NoResult]]
    /\ turns' = turns + 1
    /\ UNCHANGED <<session, submissions, last, failures, ret>>

\* processUserMessage and the follow-up step on the copies, then the first
\* updateChatSession: the five columns are written over whatever the row holds
UpdateSession(i, gen) ==
    /\ call.fn = "POST /api/chat/message"
    /\ call.requests[i].pc = "processing"
    /\ LET request == call.requests[i]
           snapshot == request.snapshot
       IN \E processed \in {processUserMessage(request.message, snapshot.state, snapshot.stage,
                                               snapshot.retryCount, gen)} :
          \E ragContext \in IF processed.newStage = "rag_followup" /\ processed.response = ""
                            THEN RagContexts ELSE {""} :
          \E result \in {RagStep(processed, ragContext, gen)} :
             /\ session' = [session EXCEPT
                              !.messages = PushTurn(snapshot.messages, request.message,
                                                    result.response),
                              !.stage = result.newStage,
                              !.state = result.newState,
                              !.status = IF result.isEscalation THEN "escalated"
                                         ELSE IF result.isComplete THEN "completed"
                                         ELSE "active",
                              !.retryCount = result.newRetryCount]
             /\ last' = [input |-> request.message, stage |-> snapshot.stage,
                         retryCount |-> snapshot.retryCount, newStage |-> result.newStage,
                         response |-> result.response, isEscalation |-> result.isEscalation,
                         isComplete |-> result.isComplete,
                         newRetryCount |-> result.newRetryCount]
             /\ call' = [call EXCEPT !.requests[i].result = result,
                                     !.requests[i].pc = IF result.isComplete THEN "submitting"
                                                        ELSE "responded"]
    /\ UNCHANGED <<submissions, turns, failures, ret>>

\* the auto-submit of a completing turn: extraction, red flags, handoff,
\* createSubmission and the second updateChatSession; a failed handoff call
\* ends the request with 500
CreateSubmission(i, outcome) ==
    /\ call.fn = "POST /api/chat/message"
    /\ call.requests[i].pc = "submitting"
    /\ LET request == call.requests[i]
           handoff == TurnHandoff(request.message, request.result,
                                  outcome[1], outcome[2], outcome[3])
       IN IF handoff = Throw
          THEN /\ call' = [call EXCEPT !.requests[i].pc = "failed"]
               /\ UNCHANGED <<session, submissions>>
          ELSE /\ submissions' = Append(submissions, AutoSubmission(request.result, handoff[2]))
               /\ session' = [session EXCEPT !.submissionId = Len(submissions) + 1,
                                             !.handoffJson = handoff]
               /\ call' = [call EXCEPT !.requests[i].pc = "responded"]
    /\ UNCHANGED <<last, turns, failures, ret>>

NextConcurrent ==
    \E i \in Requests :
        \/ \E message \in UserMessages(session.stage) : ReadSession(i, message)
        \/ \E gen \in GenOutcomes : UpdateSession(i, gen)
        \/ \E outcome \in CompletionOutcomes : CreateSubmission(i, outcome)

SpecConcurrent == InitConcurrent /\ [][NextConcurrent]_vars

\* C13: the turns of a session are handled one at a time: no two requests
\* compute from the same stored row, the row a request writes over is the row
\* it read, and the session gets one submission.
C13_OneTurnAtATime ==
    [][/\ \A i, j \in Requests :
             (/\ i # j
              /\ call'.requests[i].pc = "processing"
              /\ call'.requests[j].pc = "processing")
                => call'.requests[i].snapshot # call'.requests[j].snapshot
       /\ \A i \in Requests :
             (call.requests[i].pc = "processing" /\ call'.requests[i].pc # "processing")
                => session = call.requests[i].snapshot
       /\ Len(submissions') <= 1]_vars

\* two answers to the severity question computed from the same row: the
\* second write replaces the 9 the first had stored
C13_LostUpdate ==
    /\ call.fn = "POST /api/chat/message"
    /\ call.requests[1].pc = "responded" /\ call.requests[2].pc = "responded"
    /\ call.requests[1].snapshot = call.requests[2].snapshot
    /\ call.requests[1].result.newState["severity"] = Num(9)
    /\ call.requests[2].result.newState["severity"] = Num(3)
    /\ session.state["severity"] = Num(3)

\* two confirmations of the summary computed from the same row: each creates
\* a submission
C13_TwoSubmissions ==
    /\ call.fn = "POST /api/chat/message"
    /\ call.requests[1].snapshot = call.requests[2].snapshot
    /\ Len(submissions) = 2
    /\ session.status = "completed"

\* whether list a is the beginning of list b
IsPrefix(a, b) == Len(a) <= Len(b) /\ SubSeq(b, 1, Len(a)) = a

\* C30: every write of the messages column leaves the list it replaces as
\* the beginning of the new list, which goes on with the user's message and
\* then with nothing or with one assistant message.
C30_AppendOnly ==
    [][session'.messages # session.messages =>
          /\ IsPrefix(session.messages, session'.messages)
          /\ Len(session'.messages) \in {Len(session.messages) + 1, Len(session.messages) + 2}
          /\ session'.messages[Len(session.messages) + 1]
                = ChatMessage("user", last'.input)
          /\ Len(session'.messages) = Len(session.messages) + 2
                => session'.messages[Len(session.messages) + 2]
                     = ChatMessage("assistant", last'.response)]_vars

\* two answers to the severity question computed from the same row: the
\* stored conversation holds the second answer and has lost the first
C30_Divergence ==
    /\ call.fn = "POST /api/chat/message"
    /\ call.requests[1].pc = "responded" /\ call.requests[2].pc = "responded"
    /\ call.requests[1].snapshot = call.requests[2].snapshot
    /\ call.requests[1].message = "9" /\ call.requests[2].message = "it is 3"
    /\ \E k \in DOMAIN session.messages : session.messages[k] = ChatMessage("user", "it is 3")
    /\ ~\E k \in DOMAIN session.messages : session.messages[k] = ChatMessage("user", "9")

\* a summary rejected by a request running alone: the state is emptied and
\* the conversation goes on from the one before
C30_RejectedSummary ==
    /\ call.fn = "POST /api/chat/message"
    /\ last.stage = "summary" /\ last.input = "no"
    /\ session.state = EmptyState /\ session.stage = "opening"
    /\ session.messages
          = PushTurn(SessionAfter(Len(Script)).messages, "no", last.response)
    /\ Len(session.messages) = Len(SessionAfter(Len(Script)).messages) + 2

-----------------------------------------------------------------------------
(* The chat's triage on its own: one call of buildTriageFromChat *)

\* the complaints of the states: those parseComplaint returns, none, and one
\* that is not listed
ChatComplaints ==
    {Str(COMPLAINTS[i]) : i \in DOMAIN COMPLAINTS} \cup {Undefined, Str("back pain")}
ChatSeverities == {Undefined, Num(0), Num(4), Num(6), Num(9)}
ChatAges == {Undefined, Num(22), Num(80)}

\* the yes/no answers of a chat state that the rules read, at most one yes
ChatFlagFields == {"confusion", "neckStiffness", "radiatingPain", "vomitingBlood", "cyanosis"}

ChatStateOf(complaint, severity, age, yes) ==
    [f \in Fields |->
        CASE f = "complaint" -> complaint
          [] f = "severity" -> severity
          [] f = "age" -> age
          [] f \in yes -> Bool(TRUE)
          [] f \in ChatFlagFields -> Bool(FALSE)
          [] OTHER -> Undefined]

InitBuildTriage ==
    /\ session = NewSession /\ submissions = << >> /\ last = NoTurn
    /\ turns = 0 /\ failures = 0
    /\ call \in {[fn |-> "buildTriageFromChat", state |-> ChatStateOf(c, s, a, y)] :
                   c \in ChatComplaints, s \in ChatSeverities, a \in ChatAges,
                   y \in {{}} \cup {{f} : f \in ChatFlagFields}}
    /\ ret = NoCall

CallBuildTriageFromChat ==
    /\ call.fn = "buildTriageFromChat" /\ ret = NoCall
    /\ ret' = [fn |-> "buildTriageFromChat", result |-> buildTriageFromChat(call.state)]
    /\ UNCHANGED <<session, submissions, last, turns, failures, call>>

SpecBuildTriage == InitBuildTriage /\ [][CallBuildTriageFromChat]_vars

\* C17: a Green result carries a list of exactly 5 non-empty recommendations,
\* the complaint's own list when the complaint is one of the five listed and
\* the generic list otherwise; an Amber or Red result carries none.
C17_GreenRecommendations ==
    ret.fn = "buildTriageFromChat" =>
        LET recommendations == ret.result.recommendations
            complaint == call.state["complaint"]
            listed == IsStr(complaint) /\ ToLowerCase(Val(complaint)) \in Range(COMPLAINTS)
        IN IF ret.result.riskBand = "Green"
           THEN /\ recommendations[1] = "array"
                /\ Len(recommendations[2]) = 5
                /\ \A i \in 1..5 : recommendations[2][i] # ""
                /\ recommendations[2]
                     = IF listed
                       THEN GREEN_RECOMMENDATIONS(ToLowerCase(Val(complaint)))
                       ELSE getGreenRecommendations("")
                /\ ~listed <=> recommendations[2][1] = "Rest and monitor your symptoms"
           ELSE recommendations = Undefined

\* headache, age 22, severity 4, no flag: Green with the headache list
C17_Witness ==
    /\ ret.fn = "buildTriageFromChat"
    /\ call.state["complaint"] = Str("headache")
    /\ call.state["age"] = Num(22) /\ call.state["severity"] = Num(4)
    /\ ret.result.riskBand = "Green" /\ ret.result.redFlags = << >>
    /\ Len(ret.result.recommendations[2]) = 5
    /\ ret.result.recommendations[2][1] = "Rest in a quiet, dark room"

\* a complaint that is not listed: Green with the generic list
C17_GenericList ==
    /\ ret.fn = "buildTriageFromChat"
    /\ call.state["complaint"] = Str("back pain")
    /\ ret.result.riskBand = "Green"
    /\ ret.result.recommendations[2][5] = "Return for assessment if your condition worsens"

\* an Amber and a Red result, neither with recommendations
C17_NoneAboveGreen ==
    /\ ret.fn = "buildTriageFromChat"
    /\ ret.result.riskBand \in {"Amber", "Red"}
    /\ ret.result.recommendations = Undefined

-----------------------------------------------------------------------------
(* The reconciliation of one extraction with the chat state: one call of    *)
(* extractFactsFromMessages, the extraction holding at most one fact and a  *)
(* few negations, the chat state holding answers the extraction can         *)
(* contradict                                                               *)

ReconcileFacts ==
    {Fact("severity_score", Num(8), Num(90)),
     Fact("fever", Num(39), Num(90)),
     Fact("fever", Str("High"), Num(90)),
     Fact("fever", Str("high"), Num(69)),
     Fact("chest_pain", Str("crushing"), Num(90)),
     Fact("collapse", Bool(TRUE), Num(90)),
     Fact("radiating_pain", Bool(FALSE), Num(50)),
     Fact("allergies", Str("penicillin"), Num(50)),
     Fact("allergies", Num(12), Num(50))}

ReconcileNegations ==
    {Negation("fainting", Num(69)), Negation("fainting", Num(70)),
     Negation("vomiting", Num(49)), Negation("vomiting", Num(50)),
     Negation("radiating_pain", Num(90)), Negation("onset", Undefined)}

ReconcileStates ==
    {EmptyState,
     Set(Set(Set(Set(EmptyState, "complaint", Str("chest pain")), "severity", Num(3)),
             "collapse", Bool(FALSE)),
         "radiatingPain", Bool(TRUE))}

ReconcileConversations ==
    {<<[role |-> "user", content |-> "The pain is 8 out of 10"]>>,
     <<[role |-> "assistant", content |-> "How bad is it?"],
       [role |-> "user", content |-> "It hurts"]>>,
     <<[role |-> "user", content |-> "I am 45 and it hurts"]>>,
     <<[role |-> "user", content |-> "My temperature was 39"],
       [role |-> "assistant", content |-> "How do you feel?"],
       [role |-> "user", content |-> "The fever is High"]>>}

InitReconcile ==
    /\ session = NewSession /\ submissions = << >> /\ last = NoTurn
    /\ turns = 0 /\ failures = 0
    /\ call \in {[fn |-> "extractFactsFromMessages", messages |-> m,
                  existingFacts |-> st, llm |-> Extraction(f, n)] :
                   m \in ReconcileConversations, st \in ReconcileStates,
                   f \in {<< >>} \cup {<<x>> : x \in ReconcileFacts},
                   n \in SeqsUpTo(ReconcileNegations, MaxNegations)}
    /\ ret = NoCall

SpecReconcile == InitReconcile /\ [][CallExtractFacts]_vars

\* whether a negation passes the loop's only test
NegationAdmitted(neg) == ~Lt(neg.confidence, Threshold(neg.key))

\* C24: for every fact and every negation of the extraction that passes its
\* gates and states another value than the deterministic projection holds for
\* its key (false, for a negation), the divergences passed to onDivergence
\* hold an event with the session id, the key, the extracted value and the
\* deterministic value.
C24_DisagreementsRecorded ==
    Extracted =>
        LET deterministic == deterministicFactsFromState(call.existingFacts)
            patientMessages == PatientMessages(call.messages)
            facts == call.llm[2].facts
            negations == call.llm[2].negations
            events == ret.result.divergences
            recorded(key, llmValue) ==
                \E j \in DOMAIN events :
                    events[j] = Divergence(1, key, llmValue, deterministic[key])
        IN /\ \A i \in DOMAIN facts :
                 (/\ Admitted(facts[i], patientMessages)
                  /\ deterministic[facts[i].key] # Undefined
                  /\ deterministic[facts[i].key] # facts[i].value)
                   => recorded(facts[i].key, facts[i].value)
           /\ \A i \in DOMAIN negations :
                 (/\ NegationAdmitted(negations[i])
                  /\ deterministic[negations[i].key] # Undefined
                  /\ deterministic[negations[i].key] # Bool(FALSE))
                   => recorded(negations[i].key, Bool(FALSE))

\* the chat state holds radiating pain as answered yes, the extraction denies
\* it with confidence 90: the record comes back with false and no event
C24_Divergence ==
    /\ Extracted
    /\ call.existingFacts["radiatingPain"] = Bool(TRUE)
    /\ call.llm[2].facts = << >>
    /\ call.llm[2].negations = <<Negation("radiating_pain", Num(90))>>
    /\ ret.result.facts["radiating_pain"] = Bool(FALSE)
    /\ ret.result.divergences = << >>

\* the same disagreement stated as a fact: one event
C24_FactRecorded ==
    /\ Extracted
    /\ call.existingFacts["radiatingPain"] = Bool(TRUE)
    /\ call.llm[2].facts = <<Fact("radiating_pain", Bool(FALSE), Num(50))>>
    /\ call.llm[2].negations = << >>
    /\ ret.result.divergences
          = <<Divergence(1, "radiating_pain", Bool(FALSE), Bool(TRUE))>>

\* the record after the loop over result.facts, before the negations
BeforeNegations ==
    AdmitFacts(call.llm[2].facts,
               [facts |-> MergedFacts(call.existingFacts,
                                      deterministicFactsFromState(call.existingFacts)),
                divergences |-> << >>],
               deterministicFactsFromState(call.existingFacts),
               PatientMessages(call.messages), 1).facts

C25_CriticalAdmitted ==
    /\ Extracted
    /\ call.llm[2].negations = <<Negation("fainting", Num(70))>>
    /\ ret.result.facts["fainting"] = Bool(FALSE)

\* a negation at 50 of a key that is not critical taken in
C25_DefaultAdmitted ==
    /\ Extracted
    /\ call.llm[2].negations = <<Negation("vomiting", Num(50))>>
    /\ ret.result.facts["vomiting"] = Bool(FALSE)

\* the facts of the extraction that are under the conversation check
UnderCheck(fact) == fact.key \in CRITICAL_FACT_KEYS /\ ~IsBool(fact.value)

\* whether a negation of the extraction overwrites the key afterwards
Denied(key) ==
    \E i \in DOMAIN call.llm[2].negations :
        call.llm[2].negations[i].key = key /\ NegationAdmitted(call.llm[2].negations[i])

\* the record before the extraction is looked at
Present == MergedFacts(call.existingFacts, deterministicFactsFromState(call.existingFacts))

\* the check in the claim's words: the string as it stands in the lower-cased
\* text; the number written out in the text, or some number of one or two
\* digits in it
OccursAsStated(text, value) ==
    CASE IsStr(value) -> Includes(ToLowerCase(text), Val(value))
      [] IsNum(value) ->
           \/ Includes(ToLowerCase(text), ToString(Val(value)))
           \/ StandaloneNumber(ToLowerCase(text)) \/ OutOfTen(ToLowerCase(text))
      [] OTHER -> FALSE

\* the check at its exact width: the string lower-cased and trimmed; the
\* number written out, or, for a number up to 10 only, some number of one or
\* two digits or an "n / 10" in the text
Occurs(text, value) ==
    CASE IsStr(value) -> Includes(ToLowerCase(text), Trim(ToLowerCase(Val(value))))
      [] IsNum(value) ->
           \/ Includes(ToLowerCase(text), ToString(Val(value)))
           \/ /\ Val(value) <= 10
              /\ StandaloneNumber(ToLowerCase(text)) \/ OutOfTen(ToLowerCase(text))
      [] OTHER -> FALSE

C26_Rejected ==
    /\ Extracted
    /\ call.llm[2].facts = <<Fact("severity_score", Num(8), Num(90))>>
    /\ PatientMessages(call.messages) = "It hurts"
    /\ call.existingFacts["severity"] = Num(3)
    /\ ret.result.facts["severity_score"] = Num(3)

\* a severity of 8 taken in on the strength of "45"
C26_LooseNumber ==
    /\ Extracted
    /\ call.llm[2].facts = <<Fact("severity_score", Num(8), Num(90))>>
    /\ PatientMessages(call.messages) = "I am 45 and it hurts"
    /\ ret.result.facts["severity_score"] = Num(8)

\* a temperature of 39 not taken in on the strength of "45"
C26_Above10 ==
    /\ Extracted
    /\ call.llm[2].facts = <<Fact("fever", Num(39), Num(90))>>
    /\ PatientMessages(call.messages) = "I am 45 and it hurts"
    /\ ret.result.facts["fever"] = Undefined

\* a number stated for a key that is not critical, taken in unchecked
C26_NotCritical ==
    /\ Extracted
    /\ call.llm[2].facts = <<Fact("allergies", Num(12), Num(50))>>
    /\ PatientMessages(call.messages) = "It hurts"
    /\ ret.result.facts["allergies"] = Num(12)

-----------------------------------------------------------------------------
(* The extractor on an extraction that cannot be processed: one call of     *)
(* extractFactsFromMessages, the text-generation call failing, answering    *)
(* with something that is not JSON, or answering with lists that hold a     *)
(* null before, between or after their entries                              *)

BrokenFacts ==
    {<< >>,
     <<NullEntry>>,
     <<Fact("allergies", Str("penicillin"), Num(50)), NullEntry>>,
     <<NullEntry, Fact("allergies", Str("penicillin"), Num(50))>>,
     <<Fact("severity_score", Num(8), Num(90)), NullEntry>>,
     <<Fact("fainting", Bool(TRUE), Num(69)), NullEntry>>,
     <<Fact("allergies", Str("penicillin"), Num(50))>>}

BrokenNegations ==
    {<< >>,
     <<NullEntry>>,
     <<Negation("vomiting", Num(50)), NullEntry>>,
     <<NullEntry, Negation("vomiting", Num(50))>>,
     <<Negation("fainting", Num(69)), NullEntry>>}

\* the extractions with a null in one of their lists
BrokenExtractions ==
    {Extraction(f, n) : f \in BrokenFacts, n \in BrokenNegations}
       \ {x \in {Extraction(f, n) : f \in BrokenFacts, n \in BrokenNegations} :
            ~RaisesTypeError(x[2].facts) /\ ~RaisesTypeError(x[2].negations)}

InitMalformed ==
    /\ session = NewSession /\ submissions = << >> /\ last = NoTurn
    /\ turns = 0 /\ failures = 0
    /\ call \in {[fn |-> "extractFactsFromMessages", messages |-> m,
                  existingFacts |-> st, llm |-> x] :
                   m \in ReconcileConversations, st \in ReconcileStates,
                   x \in {Throw, Malformed} \cup BrokenExtractions}
    /\ ret = NoCall

SpecMalformed == InitMalformed /\ [][CallExtractFacts]_vars

\* C27: whenever the extraction call fails, answers with something that is
\* not JSON, or answers with a list that raises while it is processed, the
\* call returns a record, and that record is the chat state merged with its
\* deterministic projection, no key of it set by the extraction.
C27_NothingExtracted ==
    ret.fn = "extractFactsFromMessages" =>
        /\ "facts" \in DOMAIN ret.result
        /\ ret.result.facts = Present

\* the call failed: the record is the merged state
C27_CallFailed ==
    /\ ret.fn = "extractFactsFromMessages"
    /\ call.llm \in {Throw, Malformed}
    /\ Trim(PatientMessages(call.messages)) # ""
    /\ call.existingFacts["severity"] = Num(3)
    /\ ret.result.facts = Present
    /\ ret.result.facts["severity_score"] = Num(3)

\* a fact followed by a null: the fact stays in the record
C27_Divergence ==
    /\ ret.fn = "extractFactsFromMessages"
    /\ call.llm = Extraction(<<Fact("allergies", Str("penicillin"), Num(50)), NullEntry>>,
                             << >>)
    /\ ret.result.facts["allergies"] = Str("penicillin")
    /\ Present["allergies"] = Undefined

\* a null among the negations: the facts and the negations before it stay
C27_AfterFacts ==
    /\ ret.fn = "extractFactsFromMessages"
    /\ call.llm = Extraction(<<Fact("allergies", Str("penicillin"), Num(50))>>,
                             <<Negation("vomiting", Num(50)), NullEntry>>)
    /\ ret.result.facts["allergies"] = Str("penicillin")
    /\ ret.result.facts["vomiting"] = Bool(FALSE)

-----------------------------------------------------------------------------
(* The three endpoints that read and write one session: POST               *)
(* /api/chat/message, POST /api/chat/finish and GET                         *)
(* /api/triage/session/:sessionId/handoff, each request running to its end  *)
(* before the next is received.  call records the request and whether the  *)
(* handler ran the fact extraction; ret is the response.                    *)

\* Bound: the requests received by the endpoints
MaxCalls == 3

\* the outcomes of storage.getAllChunks in the follow-up step: the chunks are
\* read, or the lookup fails
ChunkLookups == {"read", "failed"}

Request(fn, extracted) == [fn |-> fn, extracted |-> extracted]

\* res.status(code).json(body), and res.json(body) with 200
Response(status, body) == [status |-> status, body |-> body]

\* extraction, red-flag evaluation and generateHandoff on a stored row, as
\* /api/chat/finish and the handoff retrieval call them
RowHandoff(row, extraction, retrieval, generation) ==
    LET facts == extractFactsFromMessages(row.messages, row.state, 1, extraction).facts
        redFlagResults == evaluateRedFlags(facts)
    IN IF retrieval = Throw THEN Throw
       ELSE <<"object",
              generateHandoff(row.state, redFlagResults.triggered,
                              redFlagResults.notTriggered, redFlagResults.notAssessed,
                              generation)>>

\* the submission POST /api/chat/finish creates
FinishSubmission(state, handoff) ==
    LET triageResult == buildTriageFromChat(state)
        patientName == Text(Or(state["patientName"], Str("Patient")))
        patientAge == Or(state["age"], Num(0))
    IN [age |-> patientAge,
        sex |-> Text(Or(state["sex"], Str("Unknown"))),
        complaint |-> Text(Or(state["complaint"], Str("Unknown"))),
        riskBand |-> triageResult.riskBand,
        redFlags |-> triageResult.redFlags,
        summary |-> IF "summary_for_reception" \in DOMAIN handoff
                       /\ handoff.summary_for_reception # ""
                    THEN handoff.summary_for_reception
                    ELSE "Case #" \o ToString(Len(submissions) + 1) \o " - " \o patientName
                           \o " (Age " \o Text(patientAge) \o "): " \o triageResult.summary]

\* a conversation that reaches the follow-up questions: the complaint has
\* red-flag questions, the last of them open
FollowUpScript ==
    <<"Shortness of breath", "leg", "today", "Worse", "it is 3", "no", "no", "no", "no", "no",
      "no", "no">>

\* the session row after the first n messages of a script, each handled to
\* its end with the text generation and the guidance unavailable
RECURSIVE RowAfter(_, _)
RowAfter(script, n) ==
    IF n = 0 THEN StartedSession
    ELSE CHOOSE row \in
           {[before EXCEPT !.messages = PushTurn(before.messages, script[n], result.response),
                           !.stage = result.newStage, !.state = result.newState,
                           !.retryCount = result.newRetryCount] :
              <<before, result>> \in
                 {<<b, RagStep(processUserMessage(script[n], b.state, b.stage,
                                                  b.retryCount, Throw), "", Throw)>> :
                    b \in {RowAfter(script, n - 1)}}} : TRUE

MessageEndpoint == "POST /api/chat/message"

\* a status test that lets every session through
AcceptsAnyStatus(row) == TRUE

\* the status test of the message endpoint
Accepts(row) == row.status = "active"

\* POST /api/chat/message, the whole handler: the status test, the turn, the
\* chunk lookup of the follow-up step, the write of the row and the
\* auto-submit; an exception anywhere ends the request in the catch with 500
MessageRequest(message, gen, chunks, outcome) ==
    /\ turns < MaxCalls
    /\ message # ""
    /\ turns' = turns + 1
    /\ IF ~Accepts(session)
       THEN /\ call' = Request(MessageEndpoint, FALSE)
            /\ ret' = Response(400, "Session is no longer active")
            /\ UNCHANGED <<session, submissions, last>>
       ELSE \E processed \in {processUserMessage(message, session.state, session.stage,
                                                 session.retryCount, gen)} :
            IF processed.newStage = "rag_followup" /\ processed.response = ""
               /\ chunks = "failed"
            THEN /\ call' = Request(MessageEndpoint, FALSE)
                 /\ ret' = Response(500, "Failed to process message")
                 /\ UNCHANGED <<session, submissions, last>>
            ELSE \E ragContext \in IF processed.newStage = "rag_followup"
                                      /\ processed.response = ""
                                   THEN RagContexts ELSE {""} :
                 \E result \in {RagStep(processed, ragContext, gen)} :
                 \E handoff \in {IF result.isComplete
                                 THEN TurnHandoff(message, result, outcome[1], outcome[2],
                                                  outcome[3])
                                 ELSE Throw} :
                 \E updated \in {[session EXCEPT
                                    !.messages = PushTurn(session.messages, message,
                                                          result.response),
                                    !.stage = result.newStage,
                                    !.state = result.newState,
                                    !.status = IF result.isEscalation THEN "escalated"
                                               ELSE IF result.isComplete THEN "completed"
                                               ELSE "active",
                                    !.retryCount = result.newRetryCount]} :
                    /\ last' = [input |-> message, stage |-> session.stage,
                                retryCount |-> session.retryCount,
                                newStage |-> result.newStage,
                                response |-> result.response,
                                isEscalation |-> result.isEscalation,
                                isComplete |-> result.isComplete,
                                newRetryCount |-> result.newRetryCount]
                    /\ call' = Request(MessageEndpoint, result.isComplete)
                    /\ IF ~result.isComplete
                       THEN /\ session' = updated
                            /\ submissions' = submissions
                            /\ ret' = Response(200, [status |-> updated.status,
                                                     submissionId |-> 0])
                       ELSE IF handoff = Throw
                       THEN /\ session' = updated
                            /\ submissions' = submissions
                            /\ ret' = Response(500, "Failed to process message")
                       ELSE /\ submissions'
                                 = Append(submissions, AutoSubmission(result, handoff[2]))
                            /\ session' = [updated EXCEPT
                                             !.submissionId = Len(submissions) + 1,
                                             !.handoffJson = handoff]
                            /\ ret' = Response(200, [status |-> updated.status,
                                                     submissionId |-> Len(submissions) + 1])
    /\ UNCHANGED failures

FinishEndpoint == "POST /api/chat/finish"

\* POST /api/chat/finish, the whole handler: neither the status nor a stored
\* handoff is looked at
FinishRequest(outcome) ==
    /\ turns < MaxCalls
    /\ turns' = turns + 1
    /\ call' = Request(FinishEndpoint, TRUE)
    /\ \E handoff \in {RowHandoff(session, outcome[1], outcome[2], outcome[3])} :
          IF handoff = Throw
          THEN /\ ret' = Response(500, "Failed to finish chat session")
               /\ UNCHANGED <<session, submissions>>
          ELSE /\ submissions' = Append(submissions,
                                        FinishSubmission(session.state, handoff[2]))
               /\ session' = [session EXCEPT !.status = "completed",
                                             !.submissionId = Len(submissions) + 1,
                                             !.handoffJson = handoff]
               /\ ret' = Response(200, handoff)
    /\ UNCHANGED <<last, failures>>

HandoffEndpoint == "GET /api/triage/session/:sessionId/handoff"

\* GET /api/triage/session/:sessionId/handoff, the whole handler
HandoffRequest(outcome) ==
    /\ turns < MaxCalls
    /\ turns' = turns + 1
    /\ IF session.handoffJson # Undefined
       THEN /\ call' = Request(HandoffEndpoint, FALSE)
            /\ ret' = Response(200, session.handoffJson)
            /\ UNCHANGED <<session, submissions>>
       ELSE /\ call' = Request(HandoffEndpoint, TRUE)
            /\ \E handoff \in {RowHandoff(session, outcome[1], outcome[2], outcome[3])} :
                  IF handoff = Throw
                  THEN /\ ret' = Response(500, "Failed to get handoff")
                       /\ UNCHANGED session
                  ELSE /\ ret' = Response(200, handoff)
                       /\ session' = [session EXCEPT !.handoffJson = handoff]
            /\ UNCHANGED submissions
    /\ UNCHANGED <<last, failures>>

\* the stages that record background and daily function
ContextStages == {"context_conditions", "context_medications", "context_surgery"}
FunctionalStages == {"functional_eat", "functional_move", "functional_activities"}

\* the patient's messages the endpoints receive at each stage: those of
\* UserMessages, a complaint of fever or of a stiff neck at the opening, a
\* blank answer at the context stages and a no at the functional stages
Answers(stage) ==
    UserMessages(stage)
      \cup (IF stage = "opening" THEN {"I have a fever", "I have a stiff neck"} ELSE {})
      \cup (IF stage \in ContextStages THEN {" "} ELSE {})
      \cup (IF stage \in FunctionalStages THEN {"no"} ELSE {})

\* the points of Script the requests arrive at: those of Arrivals and the
\* context and functional stages
Points == Arrivals \cup 10..15

\* the rows the requests find: the session at the points of Script, and at
\* the last red-flag question of FollowUpScript
InitEndpoints ==
    /\ session \in {SessionAfter(n) : n \in Points}
                   \cup {RowAfter(FollowUpScript, Len(FollowUpScript))}
    /\ submissions = << >> /\ last = NoTurn
    /\ turns = 0 /\ failures = 0
    /\ call = NoCall
    /\ ret = NoCall

NextEndpoints ==
    \E outcome \in CompletionOutcomes :
        \/ \E message \in Answers(session.stage), gen \in GenOutcomes,
              chunks \in ChunkLookups :
              MessageRequest(message, gen, chunks, outcome)
        \/ FinishRequest(outcome)
        \/ HandoffRequest(outcome)

SpecEndpoints == InitEndpoints /\ [][NextEndpoints]_vars

\* C31: once the session row holds a handoff, no request replaces it or runs
\* the fact extraction again, and the handoff retrieval answers with the
\* stored document.
C31_GeneratedOnce ==
    [][session.handoffJson # Undefined =>
          /\ session'.handoffJson = session.handoffJson
          /\ ~call'.extracted
          /\ call'.fn = HandoffEndpoint => ret' = Response(200, session.handoffJson)]_vars

\* a finish request after the turn that completed the session: the handoff
\* the turn stored (the generated document, whose summary the first
\* submission carries) is replaced by the minimal one of a second generation
\* that failed, and a second submission is stored
C31_Divergence ==
    /\ call = Request(FinishEndpoint, TRUE)
    /\ ret.status = 200
    /\ last.isComplete /\ ~last.isEscalation
    /\ Len(submissions) = 2
    /\ submissions[1].summary = "Patient needs review."
    /\ submissions[2].summary # "Patient needs review."
    /\ session.submissionId = 2
    /\ session.handoffJson = ret.body

\* the retrieval on a session that has its handoff: the stored document comes
\* back and nothing is run
C31_Retrieved ==
    /\ call = Request(HandoffEndpoint, FALSE)
    /\ ret = Response(200, session.handoffJson)
    /\ session.handoffJson # Undefined
    /\ Len(submissions) = 1

\* the field each context and functional stage records
StageField(stage) ==
    CASE stage = "context_conditions" -> "medicalHistory"
      [] stage = "context_medications" -> "medications"
      [] stage = "context_surgery" -> "previousSurgery"
      [] stage = "functional_eat" -> "canEatDrink"
      [] stage = "functional_move" -> "canMove"
      [] stage = "functional_activities" -> "stoppingActivities"

\* the stage after a stage in the order of the interview
Successor(stage) == FixedSequence[indexOf(FixedSequence, stage) + 2]

\* C33: a message received at a context or functional stage of an active
\* session is processed, and unless it holds an emergency keyword the turn
\* records the stage's field and nothing else (the trimmed text, or "None
\* reported" / "None" when it is blank, at a context stage; a boolean at a
\* functional stage), stores the next stage with retry count 0 and leaves
\* the session active.
C33_OneTurn ==
    [][(/\ call'.fn = MessageEndpoint
        /\ session.status = "active"
        /\ session.stage \in ContextStages \cup FunctionalStages)
          => /\ last'.stage = session.stage
             /\ \/ checkEmergencySigns(last'.input)
                \/ /\ ret'.status = 200
                   /\ session'.stage = Successor(session.stage)
                   /\ session'.retryCount = 0 /\ last'.newRetryCount = 0
                   /\ session'.status = "active"
                   /\ ~last'.isEscalation /\ ~last'.isComplete
                   /\ last'.response # ""
                   /\ \A f \in Fields \ {StageField(session.stage)} :
                         session'.state[f] = session.state[f]
                   /\ session.stage \in FunctionalStages
                         => IsBool(session'.state[StageField(session.stage)])
                   /\ session.stage \in ContextStages
                         => session'.state[StageField(session.stage)]
                              = Str(IF Trim(last'.input) # "" THEN Trim(last'.input)
                                    ELSE IF session.stage = "context_conditions"
                                    THEN "None reported" ELSE "None")]_vars

\* a blank answer to the question about long-term conditions
C33_Witness ==
    /\ call.fn = MessageEndpoint /\ ret.status = 200
    /\ last.stage = "context_conditions" /\ last.input = " "
    /\ session.state["medicalHistory"] = Str("None reported")
    /\ session.stage = "context_medications" /\ session.retryCount = 0
    /\ session.status = "active"

\* an answer that is neither yes nor no to the question about eating: the
\* field is set from the absence of "no" and the interview moves on
C33_Unparsed ==
    /\ call.fn = MessageEndpoint /\ ret.status = 200
    /\ last.stage = "functional_eat" /\ last.input = "x"
    /\ session.state["canEatDrink"] = Bool(TRUE)
    /\ session.stage = "functional_move" /\ session.retryCount = 0

\* the emergency phrases with stiff neck and fever taken together: an input
\* names an emergency when it holds one of the other keywords, or both of
\* these
NamesEmergency(input) ==
    LET lower == ToLowerCase(input)
    IN \/ \E i \in DOMAIN emergencyKeywords :
             /\ emergencyKeywords[i] \notin {"stiff neck", "fever"}
             /\ Includes(lower, emergencyKeywords[i])
       \/ Includes(lower, "stiff neck") /\ Includes(lower, "fever")

\* C34: a message processed on an active session escalates by its keywords
\* only if it names an emergency, stiff neck and fever counting together; and
\* an opening message that names no emergency and whose complaint parses as
\* fever stores complaint = fever and the stage localisation.
C34_FeverIsAComplaint ==
    [][(/\ call'.fn = MessageEndpoint
        /\ session.status = "active"
        /\ last'.stage = session.stage
        /\ ~NamesEmergency(last'.input))
          => /\ ~checkEmergencySigns(last'.input)
             /\ (session.stage = "opening" /\ parseComplaint(last'.input) = Str("fever"))
                   => /\ session'.state["complaint"] = Str("fever")
                      /\ session'.stage = "localisation"
                      /\ session'.status = "active"
                      /\ ~last'.isEscalation]_vars

\* the opening message "I have a fever": the session is escalated and no
\* complaint is stored
C34_Divergence ==
    /\ call.fn = MessageEndpoint
    /\ last.stage = "opening" /\ last.input = "I have a fever"
    /\ parseComplaint(last.input) = Str("fever")
    /\ last.isEscalation /\ last.response = EMERGENCY_RESPONSE
    /\ session.stage = "escalated" /\ session.status = "escalated"
    /\ session.state["complaint"] = Undefined

\* a stiff neck without fever escalates as well
C34_StiffNeck ==
    /\ call.fn = MessageEndpoint
    /\ last.stage = "opening" /\ last.input = "I have a stiff neck"
    /\ last.isEscalation
    /\ session.status = "escalated"

\* C35: a message received at red_flags or rag_followup on an active session
\* is processed whatever the chunk lookup does: the row is written with the
\* user's message appended, and unless the turn ends the interview the
\* request is answered with a question, which is stored as the last message
\* of the conversation, and the session stays active.
C35_LookupNeverFailsTurn ==
    [][(/\ call'.fn = MessageEndpoint
        /\ session.status = "active"
        /\ session.stage \in {"red_flags", "rag_followup"})
          => /\ last'.stage = session.stage
             /\ Len(session'.messages) > Len(session.messages)
             /\ session'.messages[Len(session.messages) + 1]
                   = ChatMessage("user", last'.input)
             /\ ~last'.isComplete
                   => /\ ret'.status = 200
                      /\ session'.status = "active"
                      /\ last'.response # ""
                      /\ session'.messages[Len(session'.messages)]
                            = ChatMessage("assistant", last'.response)]_vars

\* the answer to the last red-flag question while the chunk lookup fails:
\* the request is answered 500 and the row is as it was, the answer lost
C35_Divergence ==
    /\ call = Request(MessageEndpoint, FALSE)
    /\ ret = Response(500, "Failed to process message")
    /\ turns = 1
    /\ session = RowAfter(FollowUpScript, Len(FollowUpScript))
    /\ session.stage = "red_flags" /\ session.status = "active"

\* the same inside the loop: the answer to the first follow-up question is
\* not stored
C35_InsideLoop ==
    /\ call = Request(MessageEndpoint, FALSE)
    /\ ret = Response(500, "Failed to process message")
    /\ session.stage = "rag_followup" /\ session.status = "active"
    /\ session.state["ragQuestionsAsked"] = Num(0)
    /\ session.messages[Len(session.messages)].role = "assistant"

\* the lookup answering with no chunk that matches: the turn goes on to the
\* question about existing conditions
C35_NoChunks ==
    /\ call = Request(MessageEndpoint, FALSE)
    /\ ret.status = 200
    /\ last.stage = "red_flags" /\ session.stage = "context_conditions"
    /\ last.response = getNextQuestion(session.state, "context_conditions").question
    /\ session.state["ragQuestionsAsked"] = Num(0)

EscalationFlag == "Emergency escalation triggered"

\* C38: once the dialogue has escalated, every submission of the session has
\* the band Red and the escalation flag among its red flags.
C38_EscalatedIsRed ==
    last.isEscalation =>
        \A i \in DOMAIN submissions :
            /\ submissions[i].riskBand = "Red"
            /\ \E k \in DOMAIN submissions[i].redFlags :
                  submissions[i].redFlags[k] = EscalationFlag

\* a finish request after the turn that escalated: the first submission is
\* Red with the flag, the second is Green without it, and the session is
\* stored as completed and linked to the second
C38_Divergence ==
    /\ call.fn = FinishEndpoint /\ ret.status = 200
    /\ last.isEscalation /\ last.input = "I can't breathe"
    /\ Len(submissions) = 2
    /\ submissions[1].riskBand = "Red"
    /\ \E k \in DOMAIN submissions[1].redFlags : submissions[1].redFlags[k] = EscalationFlag
    /\ submissions[2].riskBand = "Green"
    /\ submissions[2].redFlags = << >>
    /\ session.status = "completed" /\ session.stage = "escalated"
    /\ session.submissionId = 2

\* C39: a message received on a session whose status is completed or
\* escalated is answered 400, and the row and the submissions stay as they
\* are.
C39_TerminalAbsorbs ==
    [][(call'.fn = MessageEndpoint /\ session.status \in {"completed", "escalated"})
          => /\ ret' = Response(400, "Session is no longer active")
             /\ session' = session
             /\ submissions' = submissions
             /\ last' = last
             /\ ~call'.extracted]_vars

\* a message after the interview was confirmed and submitted
C39_Witness ==
    /\ call = Request(MessageEndpoint, FALSE)
    /\ ret = Response(400, "Session is no longer active")
    /\ session.status = "completed" /\ session.stage = "complete"
    /\ last.isComplete /\ last.stage = "summary"
    /\ Len(submissions) = 1 /\ session.submissionId = 1

\* a message after an escalation
C39_AfterEscalation ==
    /\ call = Request(MessageEndpoint, FALSE)
    /\ ret = Response(400, "Session is no longer active")
    /\ session.status = "escalated" /\ session.stage = "escalated"
    /\ last.isEscalation

=============================================================================
